---- MODULE Spec2Model ----
(***************************************************************************)
(* Model of the multi-timeframe entry checklist of vqm-trading-tool:       *)
(* the checklist state machine (the reducer hook useChecklistState and the *)
(* setState hook useMTFChecklistStateOptimized, each driven by its         *)
(* MTFChecklist container component), the validation hook, and the        *)
(* localStorage persistence adapter.                                       *)
(*                                                                         *)
(* JavaScript values are modelled as follows.  An object is a record; a    *)
(* property that is absent (reads as undefined) is a field that is not in  *)
(* the record's DOMAIN.  null in an object-valued slot is the record Null, *)
(* null in the string-valued slot tradingStyle is NoStyle.  A localStorage *)
(* item is a record tagged by "kind": absent (getItem returns null), empty *)
(* (the empty string), garbage (text JSON.parse rejects), primitive (JSON  *)
(* text of a value that is no object) or json (JSON text of the object in  *)
(* "data").  An undefined value in an object-valued slot is Undefined.     *)
(***************************************************************************)
EXTENDS Integers, FiniteSets, Sequences, TLC

VARIABLES
    impl,                   \* which hook/container pair runs: "reducer" | "optimized"
    phase,                  \* "init" (not mounted) | "mounted" | "crashed" (render threw)
    tradingStyle,           \* useState tradingStyle / state.tradingStyle
    timeframeConfig,        \* useState timeframeConfig / state.timeframeConfig
    checklistState,         \* useReducer checklistState / the rest of state
    showRestorePrompt,
    showChangeStyleConfirm,
    showPassConfirm,        \* FinalDecisionPanel local state
    showResetConfirm,       \* FinalDecisionPanel local state
    shouldAutoSave,         \* shouldAutoSave.current (optimized hook)
    higherValidation,       \* validation hook state
    midValidation,
    lowerValidation,
    timer,                  \* useDebouncedCallback timeoutRef: NoTimer or the pending call's arguments
    zeroTimer,              \* pending setTimeout(..., 0) save: NoTimer or its snapshot
    stateDirty,             \* the state objects changed identity since the last effects flush
    tfDirty,                \* stages whose check record changed identity (or style changed)
    valDirty,               \* validationResults changed identity since the last effects flush
    stored,                 \* localStorage item STORAGE_KEY
    storedStyle,            \* localStorage item STYLE_KEY
    now,                    \* new Date().getTime(), in milliseconds
    lastOp,                 \* name of the operation that produced this state
    ret,                    \* outcome of the adapter call that produced this state
    arg,                    \* argument of the last saveChecklistState call
    savedAt,                \* time of the last save if it returned true and nothing
                            \* cleared storage since, else -1
    prevItem                \* the item the load that produced this state found

vars == << impl, phase, tradingStyle, timeframeConfig, checklistState,
           showRestorePrompt, showChangeStyleConfirm, showPassConfirm,
           showResetConfirm, shouldAutoSave, higherValidation, midValidation,
           lowerValidation, timer, zeroTimer, stateDirty, tfDirty, valDirty,
           stored, storedStyle, now, lastOp, ret, arg, savedAt, prevItem >>

sessionVars == << impl, phase, tradingStyle, timeframeConfig, checklistState,
                  showRestorePrompt, showChangeStyleConfirm, showPassConfirm,
                  showResetConfirm, shouldAutoSave, higherValidation,
                  midValidation, lowerValidation, timer, zeroTimer, stateDirty,
                  tfDirty, valDirty >>

adapterVars == << ret, arg, savedAt, prevItem >>

-----------------------------------------------------------------------------
(* JavaScript null / absent markers                                         *)

Null == [null |-> TRUE]
Undefined == [undefined |-> TRUE]
NoStyle == "null"
NoTimer == [none |-> TRUE]
NoValue == [novalue |-> TRUE]

-----------------------------------------------------------------------------
(* Trading styles and timeframe tables (TimeframeConfig.js)                 *)

StyleIds == {"day", "swing", "position"}

\* Risk percentages are kept in tenths of a percent (0.5% = 5).
TIMEFRAME_CONFIGS ==
    [day      |-> [id |-> "day",
                   higher |-> [name |-> "Daily", code |-> "daily"],
                   mid    |-> [name |-> "1-Hour", code |-> "1hour"],
                   lower  |-> [name |-> "15-Minute", code |-> "15min"],
                   riskPerTrade |-> 10, riskConsolidation |-> 5],
     swing    |-> [id |-> "swing",
                   higher |-> [name |-> "Weekly", code |-> "weekly"],
                   mid    |-> [name |-> "Daily", code |-> "daily"],
                   lower  |-> [name |-> "4-Hour", code |-> "4hour"],
                   riskPerTrade |-> 20, riskConsolidation |-> 10],
     position |-> [id |-> "position",
                   higher |-> [name |-> "Monthly", code |-> "monthly"],
                   mid    |-> [name |-> "Weekly", code |-> "weekly"],
                   lower  |-> [name |-> "Daily", code |-> "daily"],
                   riskPerTrade |-> 20, riskConsolidation |-> 10]]

\* The property of an object, undefined when it has none.
Prop(obj, f) == IF f \in DOMAIN obj THEN obj[f] ELSE Undefined

\* A finite JavaScript number, kept as a scaled integer (risk percentages of
\* the style table in tenths, parsed input in thousandths).
Num(n) == [num |-> n]

\* TIMEFRAME_CONFIGS is an object literal: a lookup by a name that is not one
\* of its own keys finds what Object.prototype has under that name.
ObjectPrototypeKeys == {"constructor", "toString", "valueOf", "hasOwnProperty"}

\* TIMEFRAME_CONFIGS[styleId] || TIMEFRAME_CONFIGS.swing
getTimeframeConfig(styleId) ==
    IF styleId \in DOMAIN TIMEFRAME_CONFIGS
        THEN TIMEFRAME_CONFIGS[styleId]
    ELSE IF styleId \in ObjectPrototypeKeys
        THEN [inherited |-> styleId]
    ELSE TIMEFRAME_CONFIGS.swing

calculateRiskPercent(styleId, isConsolidating) ==
    LET config == getTimeframeConfig(styleId)
        risk == IF isConsolidating THEN "riskConsolidation" ELSE "riskPerTrade"
    IN  IF risk \in DOMAIN config THEN Num(config[risk]) ELSE Undefined

\* { higher: config.higher.code, mid: config.mid.code, lower: config.lower.code }
TimeframeCodes(styleId) ==
    LET config == getTimeframeConfig(styleId)
    IN  [higher |-> config.higher.code, mid |-> config.mid.code,
         lower |-> config.lower.code]

-----------------------------------------------------------------------------
(* Check records (checklistReducer.js initial state factories)              *)

HigherChecks == << "uptrendConfirmed", "above50EMA", "emaAlignment",
                   "notConsolidating", "clearFromResistance" >>
MidChecks    == << "breakoutOrPullback", "aboveEMA", "volumeConfirmation",
                   "gapAcceptable", "cleanHigherLow", "rrAtLeast2to1" >>
LowerChecks  == << "stopBelowStructure", "stopDistanceOk", "notAfterExtended",
                   "retestOrPullback", "rrStillValid", "positionSizeValid" >>

Range(seq) == {seq[i] : i \in DOMAIN seq}

createEmptyTimeframeState ==
    [uptrendConfirmed |-> FALSE, above50EMA |-> FALSE, emaAlignment |-> FALSE,
     notConsolidating |-> FALSE, clearFromResistance |-> FALSE,
     isComplete |-> FALSE, isPassed |-> FALSE]

createEmptyMidTimeframeState ==
    [breakoutOrPullback |-> FALSE, aboveEMA |-> FALSE,
     volumeConfirmation |-> FALSE, gapAcceptable |-> FALSE,
     cleanHigherLow |-> FALSE, rrAtLeast2to1 |-> FALSE,
     patternType |-> "breakout", gapPercentage |-> "",
     prices |-> [entry |-> "", stop |-> "", target |-> ""],
     isComplete |-> FALSE, isPassed |-> FALSE]

createEmptyLowerTimeframeState ==
    [stopBelowStructure |-> FALSE, stopDistanceOk |-> FALSE,
     notAfterExtended |-> FALSE, retestOrPullback |-> FALSE,
     rrStillValid |-> FALSE, positionSizeValid |-> FALSE,
     positionData |-> [accountSize |-> "", riskPercent |-> "", entry |-> "",
                       stop |-> ""],
     isComplete |-> FALSE, isPassed |-> FALSE]

createInitialChecklistState ==
    [currentStep |-> "higher",
     higherTF |-> createEmptyTimeframeState,
     midTF |-> createEmptyMidTimeframeState,
     lowerTF |-> createEmptyLowerTimeframeState,
     consolidationDetected |-> FALSE,
     positionSizeRecommendation |-> 100,
     finalDecision |-> Null]

\* The flat state object of the setState hook: style fields and checklist
\* fields in one object.
FlatState(style, tfConfig, cl) ==
    [tradingStyle |-> style, timeframeConfig |-> tfConfig,
     currentStep |-> cl.currentStep,
     higherTF |-> cl.higherTF, midTF |-> cl.midTF, lowerTF |-> cl.lowerTF,
     consolidationDetected |-> cl.consolidationDetected,
     positionSizeRecommendation |-> cl.positionSizeRecommendation,
     finalDecision |-> cl.finalDecision]

\* Variant: the new state stays on the style selection step.
createInitialStateForStyle_AtSelection(styleId) ==
    FlatState(styleId, TimeframeCodes(styleId),
              [createInitialChecklistState EXCEPT !.currentStep = "styleSelection"])

createInitialStateForStyle(styleId) ==
    FlatState(styleId, TimeframeCodes(styleId), createInitialChecklistState)

\* getInitialState's last branch: no style selected yet.
NoStyleState ==
    FlatState(NoStyle, Null,
              [createInitialChecklistState EXCEPT !.currentStep = "styleSelection"])

\* selectors.getSerializableState
getSerializableState(state) ==
    [currentStep |-> state.currentStep,
     higherTF |-> state.higherTF, midTF |-> state.midTF,
     lowerTF |-> state.lowerTF,
     consolidationDetected |-> state.consolidationDetected,
     positionSizeRecommendation |-> state.positionSizeRecommendation,
     finalDecision |-> state.finalDecision]

\* The object the reducer hook hands to saveChecklistState.
NestedSnapshot(style, tfConfig, cl) ==
    [tradingStyle |-> style, timeframeConfig |-> tfConfig,
     checklistState |-> cl]

-----------------------------------------------------------------------------
(* Stage validators (checklistValidation.js)                                *)

\* checkedItems.filter(Boolean).length
RECURSIVE CountTrue(_, _, _)
CountTrue(checks, ids, i) ==
    IF i > Len(ids) THEN 0
    ELSE (IF checks[ids[i]] THEN 1 ELSE 0) + CountTrue(checks, ids, i + 1)

\* Variant: four of the five checks are enough.
higherIsPassed_FourOfFive(passedCount) == passedCount >= 4

\* const isPassed = passedCount === 5
higherIsPassed(passedCount) == passedCount = 5

\* Variant: any open check counts as consolidation.
higherConsolidationDetected_AnyOpen(checks) ==
    CountTrue(checks, HigherChecks, 1) < 5

\* const consolidationDetected = !notConsolidating
higherConsolidationDetected(checks) == ~checks.notConsolidating

validateHigherTimeframe(checks, styleId) ==
    LET passedCount == CountTrue(checks, HigherChecks, 1)
        isPassed == higherIsPassed(passedCount)
        consolidationDetected == higherConsolidationDetected(checks)
        fullRisk == calculateRiskPercent(styleId, FALSE)
        reducedRisk == calculateRiskPercent(styleId, TRUE)
        positionAdjustment ==
            IF ~isPassed THEN 0
            ELSE IF consolidationDetected THEN 50
            ELSE 100
    IN  [isPassed |-> isPassed,
         consolidationDetected |-> consolidationDetected,
         positionAdjustment |-> positionAdjustment,
         passedCount |-> passedCount,
         totalChecks |-> 5,
         recommendedRisk |-> IF consolidationDetected THEN reducedRisk ELSE fullRisk]

\* Variant: five of the six checks are enough.
midIsPassed_FiveOfSix(passedCount) == passedCount >= 5

\* const isPassed = passedCount === 6
midIsPassed(passedCount) == passedCount = 6

validateMidTimeframe(checks) ==
    LET passedCount == CountTrue(checks, MidChecks, 1)
    IN  [isPassed |-> midIsPassed(passedCount),
         missingChecks |-> {c \in Range(MidChecks) : ~checks[c]},
         passedCount |-> passedCount,
         totalChecks |-> 6]

validateLowerTimeframe(checks) ==
    LET passedCount == CountTrue(checks, LowerChecks, 1)
        isPassed == passedCount = 6
    IN  [isPassed |-> isPassed,
         readyToExecute |-> isPassed,
         missingChecks |-> {c \in Range(LowerChecks) : ~checks[c]},
         passedCount |-> passedCount,
         totalChecks |-> 6]

\* hv, mv, lv: the parameters higherValidation, midValidation and
\* lowerValidation.
\* Variant: consolidation is looked at before the lower stage.
calculatePositionRecommendation_ConsolidationFirst(hv, mv, lv) ==
    IF ~hv.isPassed
        THEN [recommendation |-> 0, status |-> "NO TRADE", color |-> "error"]
    ELSE IF ~mv.isPassed
        THEN [recommendation |-> 0, status |-> "WAIT", color |-> "warning"]
    ELSE IF hv.consolidationDetected
        THEN [recommendation |-> 50, status |-> "HALF SIZE", color |-> "warning"]
    ELSE IF ~lv.isPassed
        THEN [recommendation |-> 0, status |-> "NO ENTRY", color |-> "warning"]
    ELSE [recommendation |-> 100, status |-> "FULL SIZE", color |-> "success"]

calculatePositionRecommendation(hv, mv, lv) ==
    IF ~hv.isPassed
        THEN [recommendation |-> 0, status |-> "NO TRADE", color |-> "error"]
    ELSE IF ~mv.isPassed
        THEN [recommendation |-> 0, status |-> "WAIT", color |-> "warning"]
    ELSE IF ~lv.isPassed
        THEN [recommendation |-> 0, status |-> "NO ENTRY", color |-> "warning"]
    ELSE IF hv.consolidationDetected
        THEN [recommendation |-> 50, status |-> "HALF SIZE", color |-> "warning"]
    ELSE [recommendation |-> 100, status |-> "FULL SIZE", color |-> "success"]

-----------------------------------------------------------------------------
(* Numbers and parseFloat, for the auto-check helpers of                    *)
(* checklistValidation.js.  A finite number is Num(n) with n in thousandths; *)
(* a string is [str |-> sequence of characters].                            *)

NaN == [nan |-> TRUE]
Infinity(sign) == [inf |-> sign]

\* isNaN(x) for a number x
isNaN(x) == "nan" \in DOMAIN x
IsFinite(x) == "num" \in DOMAIN x

\* a < b on numbers: false when either is NaN
JSLess(a, b) ==
    /\ ~isNaN(a) /\ ~isNaN(b)
    /\ IF "inf" \in DOMAIN a
          THEN a.inf = -1 /\ b # Infinity(-1)
       ELSE IF "inf" \in DOMAIN b
          THEN b.inf = 1
       ELSE a.num < b.num

\* a >= b, a <= b on numbers: false when either is NaN
JSGeq(a, b) == ~isNaN(a) /\ ~isNaN(b) /\ ~JSLess(a, b)
JSLeq(a, b) == JSGeq(b, a)

InfinityWord == << "I", "n", "f", "i", "n", "i", "t", "y" >>

\* parseFloat of a string without exponent part: leading white space is
\* skipped, then the longest prefix that is a decimal literal is read and
\* whatever follows it is ignored.
ParseFloatString(chars) ==
    LET Digits == {"0", "1", "2", "3", "4", "5", "6", "7", "8", "9"}
        DigitValue ==
            [d \in Digits |->
                CASE d = "0" -> 0 [] d = "1" -> 1 [] d = "2" -> 2 [] d = "3" -> 3
                  [] d = "4" -> 4 [] d = "5" -> 5 [] d = "6" -> 6 [] d = "7" -> 7
                  [] d = "8" -> 8 [] d = "9" -> 9]
        RECURSIVE TrimLeft(_)
        TrimLeft(cs) ==
            IF cs # << >> /\ Head(cs) = " " THEN TrimLeft(Tail(cs)) ELSE cs
        \* The longest run of digits at the start of cs.
        RECURSIVE DigitRun(_)
        DigitRun(cs) ==
            IF cs # << >> /\ Head(cs) \in Digits
                THEN << Head(cs) >> \o DigitRun(Tail(cs))
                ELSE << >>
        StartsWith(cs, word) ==
            Len(cs) >= Len(word) /\ SubSeq(cs, 1, Len(word)) = word
        \* The integer a run of digits writes.
        RECURSIVE IntegerOf(_)
        IntegerOf(digits) ==
            IF digits = << >> THEN 0
            ELSE 10 * IntegerOf(SubSeq(digits, 1, Len(digits) - 1))
                 + DigitValue[digits[Len(digits)]]
        \* The thousandths the first three digits after the point write.
        ThousandthsOf(digits) ==
            (IF Len(digits) >= 1 THEN 100 * DigitValue[digits[1]] ELSE 0)
            + (IF Len(digits) >= 2 THEN 10 * DigitValue[digits[2]] ELSE 0)
            + (IF Len(digits) >= 3 THEN DigitValue[digits[3]] ELSE 0)
        t == TrimLeft(chars)
        signed == t # << >> /\ Head(t) \in {"-", "+"}
        sign == IF signed /\ Head(t) = "-" THEN -1 ELSE 1
        body == IF signed THEN Tail(t) ELSE t
        whole == DigitRun(body)
        after == SubSeq(body, Len(whole) + 1, Len(body))
        fraction == IF after # << >> /\ Head(after) = "."
                        THEN DigitRun(Tail(after)) ELSE << >>
    IN  IF StartsWith(body, InfinityWord) THEN Infinity(sign)
        ELSE IF whole = << >> /\ fraction = << >> THEN NaN
        ELSE Num(sign * (1000 * IntegerOf(whole) + ThousandthsOf(fraction)))

\* parseFloat(x): the argument is converted to a string first, so a number
\* comes back as it is, and null and undefined give NaN.
parseFloat(x) ==
    IF "str" \in DOMAIN x THEN ParseFloatString(x.str)
    \* the string toFixed(2) wrote: hundredths, read back in thousandths
    ELSE IF "fixed" \in DOMAIN x THEN Num(10 * x.fixed)
    ELSE IF IsFinite(x) \/ isNaN(x) \/ "inf" \in DOMAIN x THEN x
    ELSE NaN

\* shouldAutoCheckRR(rrRatio, minRatio)
shouldAutoCheckRR(rrRatio, minRatio) ==
    LET ratio == parseFloat(rrRatio)
    IN  ~isNaN(ratio) /\ JSGeq(ratio, minRatio)

\* Variant: a risk of 0 is accepted.
shouldAutoCheckPositionSize_ZeroAllowed(riskPercent, maxRisk) ==
    LET risk == parseFloat(riskPercent)
    IN  ~isNaN(risk) /\ JSGeq(risk, Num(0)) /\ JSLeq(risk, maxRisk)

\* shouldAutoCheckPositionSize(riskPercent, maxRisk)
shouldAutoCheckPositionSize(riskPercent, maxRisk) ==
    LET risk == parseFloat(riskPercent)
    IN  ~isNaN(risk) /\ JSLess(Num(0), risk) /\ JSLeq(risk, maxRisk)

-----------------------------------------------------------------------------
(* Calculators (tradingCalculators.ts).  Arithmetic is exact, on            *)
(* thousandths; a value formatted by toFixed(2) is [fixed |-> hundredths].  *)

MAX_PRICE == 1000000
MAX_ACCOUNT == 100000000

\* x > max for a positive x in thousandths and a maximum in units
Exceeds(x, max) ==
    x.num \div 1000 > max \/ (x.num \div 1000 = max /\ x.num % 1000 > 0)

\* Math.abs
Abs(n) == IF n < 0 THEN -n ELSE n

\* n / d in units of 10^-k, the nearest one and the larger of two equally
\* near: (n / d).toFixed(2) is Rounded(n, d, 2), in hundredths.
Rounded(n, d, k) ==
    LET \* The decimal expansion of n / d for n >= 0 and d > 0 by long
        \* division: the whole of n * 10^j / d and what remains.
        RECURSIVE LongDivision(_)
        LongDivision(j) ==
            IF j = 0 THEN [quotient |-> n \div d, rest |-> n % d]
            ELSE LET prev == LongDivision(j - 1)
                 IN  [quotient |-> 10 * prev.quotient + (10 * prev.rest) \div d,
                      rest |-> (10 * prev.rest) % d]
        division == LongDivision(k)
    IN  [fixed |-> division.quotient
                   + (IF 2 * division.rest >= d THEN 1 ELSE 0)]

\* { success: false, error, field }
Failure(field) == [success |-> FALSE, field |-> field]

\* Variant: a target on the wrong side of the entry is accepted.
isLongPosition_AnyTarget(entry, stop, target) == stop < entry

\* isLongPosition = stop < entry && target > entry
isLongPosition(entry, stop, target) == stop < entry /\ target > entry

\* isShortPosition = stop > entry && target < entry
isShortPosition(entry, stop, target) == stop > entry /\ target < entry

\* Variant: a reward equal to the risk is not enough.
isValidTrade_Strict(rewardPerShare, riskPerShare) == rewardPerShare > riskPerShare

\* isValidTrade: rrRatio >= 1, with rrRatio = rewardPerShare / riskPerShare
isValidTrade(rewardPerShare, riskPerShare) == rewardPerShare >= riskPerShare

\* calculateRiskReward({ entryPrice, stopLoss, targetPrice })
calculateRiskReward(entryPrice, stopLoss, targetPrice) ==
    LET entry == parseFloat(entryPrice)
        stop == parseFloat(stopLoss)
        target == parseFloat(targetPrice)
    IN  IF isNaN(entry) \/ isNaN(stop) \/ isNaN(target) THEN Failure("all")
        ELSE IF ~IsFinite(entry) \/ ~IsFinite(stop) \/ ~IsFinite(target)
            THEN Failure("all")
        ELSE IF entry.num <= 0 \/ stop.num <= 0 \/ target.num <= 0
            THEN Failure(IF entry.num <= 0 THEN "entry"
                         ELSE IF stop.num <= 0 THEN "stop" ELSE "target")
        ELSE IF Exceeds(entry, MAX_PRICE) \/ Exceeds(stop, MAX_PRICE)
                \/ Exceeds(target, MAX_PRICE)
            THEN Failure("all")
        ELSE LET long == isLongPosition(entry.num, stop.num, target.num)
                 short == isShortPosition(entry.num, stop.num, target.num)
                 riskPerShare == Abs(entry.num - stop.num)
                 rewardPerShare == Abs(target.num - entry.num)
             IN  IF ~long /\ ~short THEN Failure("relationship")
                 ELSE IF riskPerShare = 0 THEN Failure("stop")
                 ELSE [success |-> TRUE,
                       data |-> [riskPerShare |-> Rounded(riskPerShare, 1000, 2),
                                 rewardPerShare |-> Rounded(rewardPerShare, 1000, 2),
                                 rrRatio |-> Rounded(rewardPerShare, riskPerShare, 2),
                                 positionType |-> IF long THEN "Long" ELSE "Short",
                                 isValidTrade |->
                                     isValidTrade(rewardPerShare, riskPerShare)]]

\* Variant: the position value is not compared with the account size.
PositionTooLarge_Never(shares, entry, account) == FALSE

\* positionValue > account, with positionValue = shares * entry
PositionTooLarge(shares, entry, account) == shares > account \div entry

\* calculatePositionSize({ accountSize, riskPercent, entryPrice, stopLoss })
calculatePositionSize(accountSize, riskPercent, entryPrice, stopLoss) ==
    LET account == parseFloat(accountSize)
        riskPct == parseFloat(riskPercent)
        entry == parseFloat(entryPrice)
        stop == parseFloat(stopLoss)
    IN  IF isNaN(account) \/ isNaN(riskPct) \/ isNaN(entry) \/ isNaN(stop)
            THEN Failure("all")
        ELSE IF ~IsFinite(account) \/ ~IsFinite(riskPct) \/ ~IsFinite(entry)
                \/ ~IsFinite(stop)
            THEN Failure("all")
        ELSE IF account.num <= 0 THEN Failure("accountSize")
        ELSE IF Exceeds(account, MAX_ACCOUNT) THEN Failure("accountSize")
        ELSE IF riskPct.num <= 0 \/ Exceeds(riskPct, 100)
            THEN Failure("riskPercent")
        ELSE IF entry.num <= 0 \/ stop.num <= 0
            THEN Failure(IF entry.num <= 0 THEN "entryPrice" ELSE "stopLoss")
        ELSE IF Exceeds(entry, MAX_PRICE) \/ Exceeds(stop, MAX_PRICE)
            THEN Failure("all")
        ELSE IF entry.num <= stop.num THEN Failure("relationship")
        ELSE LET \* riskAmount = account * (riskPct / 100), in thousandths,
                 \* rounded down: account * riskPct / 100000 on thousandths
                 riskAmount ==
                     (account.num \div 100000) * riskPct.num
                     + ((account.num % 100000) * riskPct.num) \div 100000
                 riskPerShare == Abs(entry.num - stop.num)
             IN  IF riskPerShare = 0 THEN Failure("stopLoss")
                 ELSE LET shares == riskAmount \div riskPerShare
                          positionValue == shares * entry.num
                      IN  IF shares = 0 THEN Failure("calculation")
                          ELSE IF PositionTooLarge(shares, entry.num, account.num)
                              THEN Failure("calculation")
                          ELSE [success |-> TRUE,
                                data |-> [shares |-> shares,
                                          positionValue |-> Rounded(positionValue, 1000, 2),
                                          riskAmount |-> Rounded(riskAmount, 1000, 2),
                                          riskPerShare |-> Rounded(riskPerShare, 1000, 2),
                                          \* ((positionValue / account) * 100).toFixed(2)
                                          percentOfAccount |->
                                              Rounded(positionValue, account.num, 4)]]

-----------------------------------------------------------------------------
(* Related inputs (useDebouncedInput.js, useRelatedInputs).  A validator is *)
(* given by what it says about the current values: "valid" or "invalid",   *)
(* or "none" when the hook was given no validator.                          *)

\* Variant: field errors do not stop the validation.
hasFieldError_Never(validators) == FALSE

\* hasFieldError after the loop over Object.entries(individualValidators);
\* an entry without validator is skipped.
hasFieldError(validators) ==
    \E field \in DOMAIN validators : validators[field] = "invalid"

\* validateRelationships(): what it returns, whether relationshipValidator
\* was called, and the errors and relationshipError it leaves.
validateRelationships(validators, relationshipValidator, errors, relationshipError) ==
    IF relationshipValidator = "none"
        THEN [value |-> TRUE, ran |-> FALSE, errors |-> errors,
              relationshipError |-> relationshipError]
    ELSE LET fieldErrors ==
                 {field \in DOMAIN validators : validators[field] = "invalid"}
         IN  IF hasFieldError(validators)
                 THEN [value |-> FALSE, ran |-> FALSE, errors |-> fieldErrors,
                       relationshipError |-> relationshipError]
                 ELSE [value |-> relationshipValidator = "valid", ran |-> TRUE,
                       errors |-> fieldErrors,
                       relationshipError |->
                           IF relationshipValidator = "valid" THEN "null"
                           ELSE "error"]

-----------------------------------------------------------------------------
(* Persistence adapter (checklistStorage.js)                                *)

EXPIRATION_HOURS == 24
MsPerHour == 60 * 60 * 1000

\* The clock: it reads StartHours hours at the start of a run; the storage
\* specification observes it LongStep hours later and then every hour,
\* MaxHours hours long.
StartHours == 30
MaxHours == 26
LongStep == 23

NoItem == [kind |-> "absent"]

\* The properties that hold objects (or null, or undefined).
ObjectSlots == {"state", "checklistState", "timeframeConfig", "higherTF",
                "midTF", "lowerTF", "finalDecision"}

\* JSON.stringify keeps strings, booleans, finite numbers, null and plain
\* objects and leaves out every property whose value is undefined.
RECURSIVE JSONValue(_)
JSONValue(obj) ==
    IF obj = Null THEN Null
    ELSE [f \in {g \in DOMAIN obj : ~(g \in ObjectSlots /\ obj[g] = Undefined)} |->
             IF f \in ObjectSlots THEN JSONValue(obj[f]) ELSE obj[f]]

JSONStringify(obj) == [kind |-> "json", data |-> JSONValue(obj)]

\* JSON.parse throws on text that is no JSON.
JSONParseThrows(item) == item.kind = "garbage"

\* { state, timestamp: new Date().getTime(), version: '1.0' }
DataToStore(state, time) ==
    [state |-> state, timestamp |-> time, version |-> "1.0"]

\* saveChecklistState(state) under the answer localStorage.setItem gives:
\*   "ok"           the first write is accepted
\*   "quotaThenOk"  the first write throws QuotaExceededError, a write after
\*                  the old item is removed would be accepted
\*   "quotaTwice"   QuotaExceededError however often it is tried
\*   "otherError"   setItem throws another error
\* In the catch block dataToStore is out of scope (it is a const of the try
\* block), so evaluating the retry's argument throws a ReferenceError before
\* setItem is called; the inner catch turns that into return false.
saveChecklistState(state, item, time, env) ==
    IF env = "ok"
        THEN [ok |-> TRUE, item |-> JSONStringify(DataToStore(state, time))]
    ELSE IF env \in {"quotaThenOk", "quotaTwice"}
        THEN [ok |-> FALSE, item |-> NoItem]
    ELSE [ok |-> FALSE, item |-> item]

\* !state.tradingStyle for a string-valued property
FalsyString(obj, f) == f \notin DOMAIN obj \/ obj[f] = NoStyle \/ obj[f] = ""

\* !state.higherTF for an object-valued property
FalsyObject(obj, f) ==
    f \notin DOMAIN obj \/ obj[f] = Null \/ obj[f] = Undefined

validateStateStructure(state) ==
    \* state && typeof state === 'object'
    LET IsObject ==
            state # Null /\ state # Undefined /\ "primitive" \notin DOMAIN state
    IN
    IF ~IsObject THEN FALSE
    ELSE IF FalsyString(state, "tradingStyle") \/ FalsyString(state, "currentStep")
        THEN FALSE
    ELSE IF FalsyObject(state, "higherTF") \/ FalsyObject(state, "midTF")
            \/ FalsyObject(state, "lowerTF")
        THEN FALSE
    ELSE TRUE

\* Variant: an entry exactly EXPIRATION_HOURS old counts as expired.
IsExpired_Inclusive(timestamp, time) ==
    time - timestamp >= EXPIRATION_HOURS * MsPerHour

\* currentTime - data.timestamp > expirationTime
IsExpired(timestamp, time) ==
    time - timestamp > EXPIRATION_HOURS * MsPerHour

\* loadChecklistState(): the returned value (Null for null) and the item
\* left in storage.
loadChecklistState(item, time) ==
    IF item.kind \in {"absent", "empty"} THEN [value |-> Null, item |-> item]
    ELSE IF JSONParseThrows(item) THEN [value |-> Null, item |-> NoItem]
    ELSE IF item.kind = "primitive" THEN [value |-> Null, item |-> NoItem]
    ELSE LET data == item.data IN
         IF FalsyObject(data, "state")
            \/ "timestamp" \notin DOMAIN data \/ data.timestamp = 0
             THEN [value |-> Null, item |-> NoItem]
         ELSE IF IsExpired(data.timestamp, time)
             THEN [value |-> Null, item |-> NoItem]
         ELSE IF ~validateStateStructure(data.state)
             THEN [value |-> Null, item |-> NoItem]
         ELSE [value |-> data.state, item |-> item]

clearChecklistState(item) == NoItem

hasSavedState(item, time) == loadChecklistState(item, time).value # Null

\* { style, config, timestamp }
saveTradingStyle(styleId, time) ==
    JSONStringify([style |-> styleId, config |-> getTimeframeConfig(styleId),
                   timestamp |-> time])

\* Variant: the preference is never found.
loadTradingStyle_Never(item) == Null

loadTradingStyle(item) ==
    IF item.kind \in {"absent", "empty"} THEN Null
    ELSE IF JSONParseThrows(item) THEN Null
    ELSE item.data

clearTradingStyle(item) == NoItem

\* getLastSaveTime(): new Date(data.timestamp), or null
getLastSaveTime(item) ==
    IF item.kind \in {"absent", "empty"} THEN Null
    ELSE IF JSONParseThrows(item) THEN Null
    ELSE IF item.kind = "primitive" THEN [date |-> "invalid"]
    ELSE IF "timestamp" \in DOMAIN item.data
        THEN [date |-> "valid", time |-> item.data.timestamp]
    ELSE [date |-> "invalid"]

-----------------------------------------------------------------------------
(* Sample checklist contents                                                *)

\* The check record with the first n checks of ids ticked, and the stored
\* result fields as given.
RECURSIVE TickFirst(_, _, _)
TickFirst(rec, ids, n) ==
    IF n = 0 THEN rec
    ELSE [TickFirst(rec, ids, n - 1) EXCEPT ![ids[n]] = TRUE]

Completed(rec, ids) ==
    [TickFirst(rec, ids, Len(ids)) EXCEPT !.isComplete = TRUE, !.isPassed = TRUE]

PassDecision ==
    [action |-> "pass", timestamp |-> "iso", reason |-> "criteria"]

ChecklistAt(step) ==
    LET init == createInitialChecklistState
        h == Completed(init.higherTF, HigherChecks)
        m == Completed(init.midTF, MidChecks)
        l == Completed(init.lowerTF, LowerChecks)
    IN  IF step = "higher" THEN init
        ELSE IF step = "mid" THEN [init EXCEPT !.currentStep = "mid", !.higherTF = h]
        ELSE IF step = "lower"
            THEN [init EXCEPT !.currentStep = "lower", !.higherTF = h, !.midTF = m]
        ELSE IF step = "final"
            THEN [init EXCEPT !.currentStep = "final", !.higherTF = h,
                              !.midTF = m, !.lowerTF = l]
        ELSE [init EXCEPT !.currentStep = "final", !.higherTF = h,
                          !.midTF = m, !.finalDecision = PassDecision]

-----------------------------------------------------------------------------
(* The state before the component is mounted                                *)

Unmounted(i) ==
    /\ impl = i
    /\ phase = "init"
    /\ tradingStyle = NoStyle
    /\ timeframeConfig = Null
    /\ checklistState = createInitialChecklistState
    /\ showRestorePrompt = FALSE
    /\ showChangeStyleConfirm = FALSE
    /\ showPassConfirm = FALSE
    /\ showResetConfirm = FALSE
    /\ shouldAutoSave = TRUE
    /\ higherValidation = Null
    /\ midValidation = Null
    /\ lowerValidation = Null
    /\ timer = NoTimer
    /\ zeroTimer = NoTimer
    /\ stateDirty = FALSE
    /\ tfDirty = {}
    /\ valDirty = FALSE

-----------------------------------------------------------------------------
(* The checklist reducer (checklistReducer.js)                              *)

\* { ...obj, [field]: value }
SetField_Alone(obj, field, value) == [f \in {field} |-> value]

SetField(obj, field, value) ==
    [f \in DOMAIN obj \cup {field} |-> IF f = field THEN value ELSE obj[f]]

\* default: console.warn(...); return state
reducerDefault_Initial(state) == createInitialChecklistState

reducerDefault(state) == state

checklistReducer(state, action) ==
    CASE action.type = "TOGGLE_HIGHER_CHECK" ->
            [state EXCEPT !.higherTF[action.checkId] = ~@]
      [] action.type = "UPDATE_HIGHER_VALIDATION" ->
            [state EXCEPT !.higherTF.isComplete = action.isPassed,
                          !.higherTF.isPassed = action.isPassed,
                          !.consolidationDetected = action.consolidationDetected,
                          !.positionSizeRecommendation = action.positionAdjustment]
      [] action.type = "TOGGLE_MID_CHECK" ->
            [state EXCEPT !.midTF[action.checkId] = ~@]
      [] action.type = "UPDATE_MID_CHECK" ->
            [state EXCEPT !.midTF = SetField(@, action.checkId, action.value)]
      [] action.type = "SET_PATTERN_TYPE" ->
            [state EXCEPT !.midTF = SetField(@, "patternType", action.patternType)]
      [] action.type = "SET_GAP_PERCENTAGE" ->
            [state EXCEPT !.midTF = SetField(@, "gapPercentage", action.value)]
      [] action.type = "UPDATE_MID_PRICE" ->
            [state EXCEPT !.midTF.prices = SetField(@, action.field, action.value)]
      [] action.type = "UPDATE_MID_VALIDATION" ->
            [state EXCEPT !.midTF.isComplete = action.isPassed,
                          !.midTF.isPassed = action.isPassed]
      [] action.type = "TOGGLE_LOWER_CHECK" ->
            [state EXCEPT !.lowerTF[action.checkId] = ~@]
      [] action.type = "UPDATE_LOWER_CHECK" ->
            [state EXCEPT !.lowerTF = SetField(@, action.checkId, action.value)]
      [] action.type = "UPDATE_POSITION_DATA" ->
            [state EXCEPT !.lowerTF.positionData =
                              SetField(@, action.field, action.value)]
      [] action.type = "UPDATE_LOWER_VALIDATION" ->
            [state EXCEPT !.lowerTF.isComplete = action.isPassed,
                          !.lowerTF.isPassed = action.isPassed]
      [] action.type = "PROCEED_TO_MID" -> [state EXCEPT !.currentStep = "mid"]
      [] action.type = "PROCEED_TO_LOWER" -> [state EXCEPT !.currentStep = "lower"]
      [] action.type = "PROCEED_TO_FINAL" -> [state EXCEPT !.currentStep = "final"]
      [] action.type = "BACK_TO_HIGHER" -> [state EXCEPT !.currentStep = "higher"]
      [] action.type = "BACK_TO_MID" -> [state EXCEPT !.currentStep = "mid"]
      [] action.type = "SET_FINAL_DECISION" ->
            [state EXCEPT !.finalDecision = action.decision]
      [] action.type = "RESET_CHECKLIST" -> createInitialChecklistState
      [] action.type = "RESET_TO_STYLE_SELECTION" ->
            [createInitialChecklistState EXCEPT !.currentStep = "styleSelection"]
      [] action.type = "RESTORE_STATE" -> action.state
      [] OTHER -> reducerDefault(state)

\* The setState updaters of the setState hook, on the checklist part of its
\* state object.
OptimizedUpdate(state, action) ==
    CASE action.type = "updateHigherTF" ->
            [state EXCEPT !.higherTF[action.checkId] = ~@]
      \* [checkId]: value !== undefined ? value : !prev.midTF[checkId]
      [] action.type = "updateMidTF" ->
            [state EXCEPT !.midTF[action.checkId] =
                              IF "value" \in DOMAIN action THEN action.value ELSE ~@]
      [] action.type = "updateMidPrice" ->
            [state EXCEPT !.midTF.prices = SetField(@, action.field, action.value)]
      [] action.type = "updateLowerTF" ->
            [state EXCEPT !.lowerTF[action.checkId] =
                              IF "value" \in DOMAIN action THEN action.value ELSE ~@]
      [] action.type = "updatePositionData" ->
            [state EXCEPT !.lowerTF.positionData =
                              SetField(@, action.field, action.value)]
      [] action.type = "proceedToMid" -> [state EXCEPT !.currentStep = "mid"]
      [] action.type = "proceedToLower" -> [state EXCEPT !.currentStep = "lower"]
      [] action.type = "proceedToFinal" -> [state EXCEPT !.currentStep = "final"]
      [] action.type = "backToHigher" -> [state EXCEPT !.currentStep = "higher"]
      [] action.type = "backToMid" -> [state EXCEPT !.currentStep = "mid"]
      [] action.type = "passTrade" ->
            [state EXCEPT !.finalDecision = action.decision]

\* results.x?.isPassed
OptIsPassed(validation) == validation # Null /\ validation.isPassed

\* updateValidationResults(results) of the reducer hook: one dispatch per
\* result that is not null.
ReducerUpdateValidationResults(state, results) ==
    LET s1 == IF results.higher # Null
                  THEN checklistReducer(state,
                           [type |-> "UPDATE_HIGHER_VALIDATION",
                            isPassed |-> results.higher.isPassed,
                            consolidationDetected |-> results.higher.consolidationDetected,
                            positionAdjustment |-> results.higher.positionAdjustment])
                  ELSE state
        s2 == IF results.mid # Null
                  THEN checklistReducer(s1, [type |-> "UPDATE_MID_VALIDATION",
                                             isPassed |-> results.mid.isPassed])
                  ELSE s1
    IN  IF results.lower # Null
            THEN checklistReducer(s2, [type |-> "UPDATE_LOWER_VALIDATION",
                                       isPassed |-> results.lower.isPassed])
            ELSE s2

\* updateValidationResults(results) of the setState hook.
OptimizedUpdateValidationResults(state, results) ==
    [state EXCEPT
        !.higherTF.isComplete = OptIsPassed(results.higher),
        !.higherTF.isPassed = OptIsPassed(results.higher),
        !.midTF.isComplete = OptIsPassed(results.mid),
        !.midTF.isPassed = OptIsPassed(results.mid),
        !.lowerTF.isComplete = OptIsPassed(results.lower),
        !.lowerTF.isPassed = OptIsPassed(results.lower),
        !.consolidationDetected =
            (results.higher # Null /\ results.higher.consolidationDetected),
        !.positionSizeRecommendation =
            IF results.higher # Null /\ results.higher.positionAdjustment # 0
                THEN results.higher.positionAdjustment
                ELSE 100]

-----------------------------------------------------------------------------
(* The stage sections (MidTimeframeSection.jsx, LowerTimeframeSection.jsx): *)
(* the effects that run the calculators on the text of the form fields and  *)
(* tick the stage's last check through onCheckChange(checkId, true), which  *)
(* the container binds to updateMidTF / updateLowerTF of its hook.          *)

\* Variant: the flag follows the comparison, on and off.
rrAutoCheckEffect_Follows(hook, state) ==
    LET prices == state.midTF.prices
        result == calculateRiskReward(prices.entry, prices.stop, prices.target)
    IN  [state EXCEPT !.midTF.rrAtLeast2to1 =
            /\ result.success
            /\ shouldAutoCheckRR(result.data.rrRatio, Num(2000))]

\* The effect of MidTimeframeSection on [prices.entry, prices.stop,
\* prices.target, checks.rrAtLeast2to1, onCheckChange]; useRiskRewardCalculation
\* holds the same steps with minRatio = 2.0.
rrAutoCheckEffect(hook, state) ==
    LET prices == state.midTF.prices
        \* if (text): every text but the empty one
        Filled(text) == text.str # << >>
        result == calculateRiskReward(prices.entry, prices.stop, prices.target)
        \* onCheckChange('rrAtLeast2to1', true)
        checked ==
            IF hook = "reducer"
                THEN checklistReducer(state, [type |-> "UPDATE_MID_CHECK",
                                              checkId |-> "rrAtLeast2to1",
                                              value |-> TRUE])
                ELSE OptimizedUpdate(state, [type |-> "updateMidTF",
                                             checkId |-> "rrAtLeast2to1",
                                             value |-> TRUE])
    IN  IF Filled(prices.entry) /\ Filled(prices.stop) /\ Filled(prices.target)
            THEN IF /\ result.success
                    /\ shouldAutoCheckRR(result.data.rrRatio, Num(2000))
                    /\ ~state.midTF.rrAtLeast2to1
                     THEN checked
                     ELSE state
            ELSE state

\* The effect of LowerTimeframeSection on [positionData.accountSize,
\* positionData.riskPercent, positionData.entry, positionData.stop,
\* tradingStyle].
positionSizeAutoCheckEffect(hook, styleId, state) ==
    LET positionData == state.lowerTF.positionData
        Filled(text) == text.str # << >>
        result == calculatePositionSize(positionData.accountSize,
                      positionData.riskPercent, positionData.entry,
                      positionData.stop)
        actualRisk == parseFloat(positionData.riskPercent)
        \* tradingStyle === 'day' ? 1.0 : 2.0
        maxRisk == IF styleId = "day" THEN Num(1000) ELSE Num(2000)
        \* onCheckChange('positionSizeValid', true)
        checked ==
            IF hook = "reducer"
                THEN checklistReducer(state, [type |-> "UPDATE_LOWER_CHECK",
                                              checkId |-> "positionSizeValid",
                                              value |-> TRUE])
                ELSE OptimizedUpdate(state, [type |-> "updateLowerTF",
                                             checkId |-> "positionSizeValid",
                                             value |-> TRUE])
    IN  IF /\ Filled(positionData.accountSize) /\ Filled(positionData.riskPercent)
           /\ Filled(positionData.entry) /\ Filled(positionData.stop)
            THEN IF /\ result.success
                    /\ shouldAutoCheckPositionSize(actualRisk, maxRisk)
                    /\ ~state.lowerTF.positionSizeValid
                     THEN checked
                     ELSE state
            ELSE state

-----------------------------------------------------------------------------
(* The container component: what is rendered, and the effects of a commit  *)

Stages == {"higher", "mid", "lower"}

CurrentStep ==
    IF checklistState = Undefined THEN "undefined" ELSE checklistState.currentStep

\* The tradingStyle argument the container passes to the validation hook:
\* the reducer container passes it, the other container passes two
\* arguments only, so the parameter is undefined there.
ValidationStyleArg(style) == IF impl = "reducer" THEN style ELSE NoStyle

isMidLocked ==
    IF impl = "reducer" THEN ~checklistState.higherTF.isPassed
    ELSE ~OptIsPassed(higherValidation)

isLowerLocked ==
    IF impl = "reducer" THEN ~checklistState.midTF.isPassed
    ELSE ~OptIsPassed(midValidation)

StyleSelectorRendered == CurrentStep = "styleSelection" \/ tradingStyle = NoStyle

HigherSectionRendered ==
    ~StyleSelectorRendered /\ (CurrentStep = "higher" \/ OptIsPassed(higherValidation))

MidSectionRendered ==
    /\ ~StyleSelectorRendered
    /\ (CurrentStep = "mid" \/ OptIsPassed(midValidation))
    /\ ~isMidLocked

LowerSectionRendered ==
    ~StyleSelectorRendered /\ CurrentStep = "lower" /\ ~isLowerLocked

FinalPanelRendered == ~StyleSelectorRendered /\ CurrentStep = "final"

\* isLocked={currentStep !== 'higher'} and isLocked={currentStep !== 'mid'}:
\* a locked section's inputs and buttons are disabled.
HigherIsLocked(step) == step # "higher"

\* Variant: the mid section is never locked.
MidIsLocked_Never(step) == FALSE

MidIsLocked(step) == step # "mid"

\* const canExecute = higherValidation?.isPassed && midValidation?.isPassed
\*                    && lowerValidation?.isPassed
canExecute ==
    OptIsPassed(higherValidation) /\ OptIsPassed(midValidation)
    /\ OptIsPassed(lowerValidation)

\* Variant: the guard only looks whether there is a validation result.
ContinueGuard_AnyResult(validation) == validation # Null

\* Variant: no guard.
ContinueGuard_Unchecked(validation) == TRUE

\* The guard of handleHigherContinue / handleMidContinue / handleLowerContinue
ContinueGuard(validation) == validation # Null /\ validation.isPassed

\* The arguments debouncedSave is called with.
DebouncePayload(style, tfConfig, cl) ==
    IF impl = "reducer"
        THEN [styleId |-> style, tfConfig |-> tfConfig, clState |-> cl]
        ELSE [stateToSave |-> FlatState(style, tfConfig, cl)]

\* The object saveImmediately() and the setTimeout(0) saves hand to
\* saveChecklistState.
Snapshot(style, tfConfig, cl) ==
    IF impl = "reducer"
        THEN NestedSnapshot(style, tfConfig, cl)
        ELSE FlatState(style, tfConfig, cl)

ValidationResults ==
    [higher |-> higherValidation, mid |-> midValidation, lower |-> lowerValidation]

SomeResult(results) ==
    results.higher # Null \/ results.mid # Null \/ results.lower # Null

updateValidationResults(state, results) ==
    IF impl = "reducer" THEN ReducerUpdateValidationResults(state, results)
    ELSE OptimizedUpdateValidationResults(state, results)

\* Stages whose record gets a new identity when results are applied.
AppliedStages(results) ==
    IF impl = "reducer" THEN {x \in Stages : results[x] # Null} ELSE Stages

\* The validation effects that run in a commit whose dependencies changed
\* for the stages in tfd: the result they set.
Validated(x, cl, style, tfd, old) ==
    IF x \in tfd /\ ValidationStyleArg(style) # NoStyle
        THEN CASE x = "higher" -> validateHigherTimeframe(cl.higherTF, style)
               [] x = "mid" -> validateMidTimeframe(cl.midTF)
               [] x = "lower" -> validateLowerTimeframe(cl.lowerTF)
        ELSE old

\* A render is committed with the given state and its passive effects run:
\* the auto-save effect re-arms the debounce timer, the validation effects of
\* the stages whose dependencies changed set their results, and the
\* container's effect applies the validation results of this render to the
\* state.  The state updates the effects make are rendered next.
CommitAndFlush(style, tfConfig, cl, sd, tfd, vd, tm) ==
    LET apply == vd /\ SomeResult(ValidationResults)
        runs == {x \in tfd : ValidationStyleArg(style) # NoStyle}
    IN  /\ tradingStyle' = style
        /\ timeframeConfig' = tfConfig
        /\ checklistState' =
              IF apply THEN updateValidationResults(cl, ValidationResults) ELSE cl
        /\ higherValidation' = Validated("higher", cl, style, tfd, higherValidation)
        /\ midValidation' = Validated("mid", cl, style, tfd, midValidation)
        /\ lowerValidation' = Validated("lower", cl, style, tfd, lowerValidation)
        /\ timer' = IF sd /\ style # NoStyle
                       THEN DebouncePayload(style, tfConfig, cl)
                       ELSE tm
        /\ stateDirty' = apply
        /\ tfDirty' = IF apply THEN AppliedStages(ValidationResults) ELSE {}
        /\ valDirty' = (runs # {})

\* No effect still to run changes a value: what remains of the cascade only
\* replaces objects by equal ones.
Quiescent ==
    LET hV == Validated("higher", checklistState, tradingStyle, tfDirty, higherValidation)
        mV == Validated("mid", checklistState, tradingStyle, tfDirty, midValidation)
        lV == Validated("lower", checklistState, tradingStyle, tfDirty, lowerValidation)
        res1 == ValidationResults
        cl1 == IF valDirty /\ SomeResult(res1)
                  THEN updateValidationResults(checklistState, res1)
                  ELSE checklistState
        res2 == [higher |-> hV, mid |-> mV, lower |-> lV]
        runs == {x \in tfDirty : ValidationStyleArg(tradingStyle) # NoStyle}
        cl2 == IF runs # {} /\ SomeResult(res2)
                  THEN updateValidationResults(cl1, res2)
                  ELSE cl1
    IN  /\ hV = higherValidation
        /\ mV = midValidation
        /\ lV = lowerValidation
        /\ cl1 = checklistState
        /\ cl2 = checklistState

\* The user can act: the component is mounted, the timers of 0 ms have run
\* and the effects of the last action have settled.
UserReady == phase = "mounted" /\ zeroTimer = NoTimer /\ Quiescent

-----------------------------------------------------------------------------
(* Specification Spec: one session of the checklist, from mounting the     *)
(* container over what an earlier session left in storage.  Storage        *)
(* accepts every write and the session is short against the expiry time.   *)

StoredSnapshot(state, age) ==
    JSONStringify(DataToStore(state, (StartHours - age) * MsPerHour))

StoredStyle(styleId) == saveTradingStyle(styleId, (StartHours - 1) * MsPerHour)

\* What an earlier session of this program leaves behind: nothing; a style
\* preference alone; the flat snapshot of a checklist at some stage; the
\* snapshot of the reducer hook; a snapshot older than a day; a snapshot
\* written after the style preference was cleared.
StartupStorage ==
    {<< NoItem, NoItem >>,
     << NoItem, StoredStyle("swing") >>,
     << StoredSnapshot(createInitialStateForStyle("swing"), 1), StoredStyle("swing") >>,
     << StoredSnapshot(FlatState("day", TimeframeCodes("day"), ChecklistAt("mid")), 1),
        StoredStyle("day") >>,
     << StoredSnapshot(FlatState("day", TimeframeCodes("day"), ChecklistAt("final")), 1),
        StoredStyle("day") >>,
     << StoredSnapshot(FlatState("swing", TimeframeCodes("swing"), ChecklistAt("lower")), 25),
        StoredStyle("swing") >>,
     << StoredSnapshot(NestedSnapshot("swing", TimeframeCodes("swing"), ChecklistAt("mid")), 1),
        StoredStyle("swing") >>,
     << StoredSnapshot(FlatState("day", TimeframeCodes("day"), ChecklistAt("mid")), 1),
        NoItem >>,
     << StoredSnapshot(NestedSnapshot("swing", TimeframeCodes("swing"), ChecklistAt("mid")), 1),
        NoItem >>}

Init ==
    /\ \E i \in {"reducer", "optimized"} : Unmounted(i)
    /\ \E items \in StartupStorage :
           stored = items[1] /\ storedStyle = items[2]
    /\ now = StartHours * MsPerHour
    /\ lastOp = "init"
    /\ ret = NoValue
    /\ arg = NoValue
    /\ savedAt = -1
    /\ prevItem = NoItem

Write(snapshot, item) == saveChecklistState(snapshot, item, now, "ok").item

\* The checklist part of a flat state object.
ChecklistPart(state) ==
    [f \in DOMAIN state \ {"tradingStyle", "timeframeConfig"} |-> state[f]]

\* The initialization effect of the reducer hook.
MountReducer ==
    LET loaded == loadChecklistState(stored, now)
        savedState == loaded.value
        savedStyle == loadTradingStyle(storedStyle)
    IN  IF savedState # Null /\ ~FalsyString(savedState, "tradingStyle")
        THEN LET restored == checklistReducer(checklistState,
                                 [type |-> "RESTORE_STATE",
                                  state |-> Prop(savedState, "checklistState")])
             IN  /\ tradingStyle' = savedState.tradingStyle
                 /\ timeframeConfig' = Prop(savedState, "timeframeConfig")
                 /\ checklistState' = restored
                 \* rendering reads checklistState.currentStep
                 /\ phase' = IF restored = Undefined THEN "crashed" ELSE "mounted"
                 /\ stateDirty' = TRUE
                 /\ tfDirty' = Stages
                 /\ stored' = loaded.item
                 /\ lastOp' = "restoreState"
                 /\ UNCHANGED showRestorePrompt
        ELSE IF savedStyle # Null
        THEN /\ tradingStyle' = savedStyle.style
             /\ timeframeConfig' = TimeframeCodes(savedStyle.style)
             /\ phase' = "mounted"
             /\ stateDirty' = TRUE
             /\ tfDirty' = Stages
             /\ stored' = loaded.item
             /\ lastOp' = "mount"
             /\ UNCHANGED << checklistState, showRestorePrompt >>
        ELSE /\ showRestorePrompt' = hasSavedState(loaded.item, now)
             /\ stored' = loadChecklistState(loaded.item, now).item
             /\ phase' = "mounted"
             /\ lastOp' = "mount"
             /\ UNCHANGED << tradingStyle, timeframeConfig, checklistState,
                             stateDirty, tfDirty >>

\* getInitialState() of the setState hook: the state object it returns.
getInitialState(item, styleItem, time) ==
    LET savedState == loadChecklistState(item, time).value
        savedStyle == loadTradingStyle(styleItem)
    IN  IF savedState # Null /\ ~FalsyString(savedState, "tradingStyle")
            THEN savedState
        ELSE IF savedStyle # Null
            THEN createInitialStateForStyle(savedStyle.style)
        ELSE NoStyleState

\* useState(getInitialState) and the effects of the first commit of the
\* setState hook.
MountOptimized ==
    LET loaded == loadChecklistState(stored, now)
        restore == loaded.value # Null /\ ~FalsyString(loaded.value, "tradingStyle")
        state == getInitialState(stored, storedStyle, now)
        probe == loadChecklistState(loaded.item, now)
    IN  /\ tradingStyle' = state.tradingStyle
        /\ timeframeConfig' = Prop(state, "timeframeConfig")
        /\ checklistState' = ChecklistPart(state)
        /\ showRestorePrompt' =
              (probe.value # Null /\ state.tradingStyle = NoStyle
               /\ getLastSaveTime(probe.item) # Null)
        /\ stored' = probe.item
        /\ timer' = IF state.tradingStyle # NoStyle
                       THEN [stateToSave |-> state]
                       ELSE timer
        /\ phase' = "mounted"
        /\ lastOp' = IF restore THEN "restoreState" ELSE "mount"
        /\ UNCHANGED << stateDirty, tfDirty >>

Mount ==
    /\ phase = "init"
    /\ IF impl = "reducer"
          THEN MountReducer /\ UNCHANGED timer
          ELSE MountOptimized
    /\ UNCHANGED << impl, showChangeStyleConfirm, showPassConfirm,
                    showResetConfirm, shouldAutoSave, higherValidation,
                    midValidation, lowerValidation, zeroTimer, valDirty,
                    storedStyle, now, adapterVars >>

\* The passive effects of the last commit run.
FlushEffects ==
    /\ phase = "mounted"
    /\ stateDirty \/ tfDirty # {} \/ valDirty
    /\ CommitAndFlush(tradingStyle, timeframeConfig, checklistState,
                      stateDirty, tfDirty, valDirty, timer)
    /\ lastOp' = "flushEffects"
    /\ UNCHANGED << impl, phase, showRestorePrompt, showChangeStyleConfirm,
                    showPassConfirm, showResetConfirm, shouldAutoSave,
                    zeroTimer, stored, storedStyle, now, adapterVars >>

\* handleStyleSelect(styleId)
SelectStyle ==
    \E styleId \in {"day"} :
        /\ UserReady
        /\ StyleSelectorRendered
        /\ storedStyle' = saveTradingStyle(styleId, now)
        /\ zeroTimer' = Snapshot(styleId, TimeframeCodes(styleId),
                                 createInitialChecklistState)
        /\ CommitAndFlush(styleId, TimeframeCodes(styleId),
                          IF impl = "reducer"
                              THEN checklistReducer(checklistState,
                                                    [type |-> "RESET_CHECKLIST"])
                              ELSE ChecklistPart(createInitialStateForStyle(styleId)),
                          TRUE, Stages, valDirty, timer)
        /\ lastOp' = "handleStyleSelect"
        /\ UNCHANGED << impl, phase, showRestorePrompt, showChangeStyleConfirm,
                        showPassConfirm, showResetConfirm, shouldAutoSave,
                        stored, now, adapterVars >>

\* The user works a list of checks in order, ticking the next open check,
\* and takes back only the last check of the list.
CanToggle(checks, ids, id) ==
    \E i \in DOMAIN ids :
        /\ ids[i] = id
        /\ \A j \in DOMAIN ids : j < i => checks[ids[j]]
        /\ \A j \in DOMAIN ids : j > i => ~checks[ids[j]]
        /\ checks[id] => i = Len(ids)

\* A state update of the checklist by a handler that does nothing else.
Update(reducerAction, optimizedAction, tfd, op) ==
    /\ CommitAndFlush(tradingStyle, timeframeConfig,
                      IF impl = "reducer"
                          THEN checklistReducer(checklistState, reducerAction)
                          ELSE OptimizedUpdate(checklistState, optimizedAction),
                      TRUE, tfDirty \cup tfd, valDirty, timer)
    /\ lastOp' = op
    /\ UNCHANGED << impl, phase, showRestorePrompt, showChangeStyleConfirm,
                    showPassConfirm, showResetConfirm, shouldAutoSave,
                    zeroTimer, stored, storedStyle, now, adapterVars >>

\* updateHigherTF(checkId)
ToggleHigher ==
    \E id \in Range(HigherChecks) :
        /\ UserReady
        /\ HigherSectionRendered /\ ~HigherIsLocked(CurrentStep)
        /\ CanToggle(checklistState.higherTF, HigherChecks, id)
        /\ Update([type |-> "TOGGLE_HIGHER_CHECK", checkId |-> id],
                  [type |-> "updateHigherTF", checkId |-> id],
                  {"higher"}, "updateHigherTF")

\* updateMidTF(checkId)
ToggleMid ==
    \E id \in Range(MidChecks) :
        /\ UserReady
        /\ MidSectionRendered /\ ~MidIsLocked(CurrentStep)
        /\ CanToggle(checklistState.midTF, MidChecks, id)
        /\ Update([type |-> "TOGGLE_MID_CHECK", checkId |-> id],
                  [type |-> "updateMidTF", checkId |-> id],
                  {"mid"}, "updateMidTF")

\* updateLowerTF(checkId)
ToggleLower ==
    \E id \in Range(LowerChecks) :
        /\ UserReady
        /\ LowerSectionRendered
        /\ CanToggle(checklistState.lowerTF, LowerChecks, id)
        /\ Update([type |-> "TOGGLE_LOWER_CHECK", checkId |-> id],
                  [type |-> "updateLowerTF", checkId |-> id],
                  {"lower"}, "updateLowerTF")

\* saveImmediately(): the callback of the committed render, which closes
\* over that render's state.
saveImmediately(item) ==
    IF tradingStyle # NoStyle
        THEN Write(Snapshot(tradingStyle, timeframeConfig,
                            IF impl = "reducer"
                                THEN getSerializableState(checklistState)
                                ELSE checklistState),
                   item)
        ELSE item

\* proceedToMid / proceedToLower / proceedToFinal / passTrade: a state
\* update followed by saveImmediately().
UpdateAndSave(reducerAction, optimizedAction, op) ==
    /\ CommitAndFlush(tradingStyle, timeframeConfig,
                      IF impl = "reducer"
                          THEN checklistReducer(checklistState, reducerAction)
                          ELSE OptimizedUpdate(checklistState, optimizedAction),
                      TRUE, tfDirty, valDirty, timer)
    /\ stored' = saveImmediately(stored)
    /\ lastOp' = op

Rejected(op) ==
    /\ lastOp' = op
    /\ UNCHANGED << tradingStyle, timeframeConfig, checklistState,
                    higherValidation, midValidation, lowerValidation, timer,
                    stateDirty, tfDirty, valDirty, stored >>

\* handleHigherContinue
HandleHigherContinue ==
    /\ UserReady
    /\ HigherSectionRendered /\ ~HigherIsLocked(CurrentStep)
    /\ IF ContinueGuard(higherValidation)
          THEN UpdateAndSave([type |-> "PROCEED_TO_MID"],
                             [type |-> "proceedToMid"], "proceedToMid")
          ELSE Rejected("handleHigherContinue")
    /\ UNCHANGED << impl, phase, showRestorePrompt, showChangeStyleConfirm,
                    showPassConfirm, showResetConfirm, shouldAutoSave,
                    zeroTimer, storedStyle, now, adapterVars >>

\* handleMidContinue
HandleMidContinue ==
    /\ UserReady
    /\ MidSectionRendered /\ ~MidIsLocked(CurrentStep)
    /\ IF ContinueGuard(midValidation)
          THEN UpdateAndSave([type |-> "PROCEED_TO_LOWER"],
                             [type |-> "proceedToLower"], "proceedToLower")
          ELSE Rejected("handleMidContinue")
    /\ UNCHANGED << impl, phase, showRestorePrompt, showChangeStyleConfirm,
                    showPassConfirm, showResetConfirm, shouldAutoSave,
                    zeroTimer, storedStyle, now, adapterVars >>

\* handleLowerContinue
HandleLowerContinue ==
    /\ UserReady
    /\ LowerSectionRendered
    /\ IF ContinueGuard(lowerValidation)
          THEN UpdateAndSave([type |-> "PROCEED_TO_FINAL"],
                             [type |-> "proceedToFinal"], "proceedToFinal")
          ELSE Rejected("handleLowerContinue")
    /\ UNCHANGED << impl, phase, showRestorePrompt, showChangeStyleConfirm,
                    showPassConfirm, showResetConfirm, shouldAutoSave,
                    zeroTimer, storedStyle, now, adapterVars >>

\* backToHigher, the Back button of the mid section
BackToHigher ==
    /\ UserReady
    /\ MidSectionRendered /\ ~MidIsLocked(CurrentStep)
    /\ Update([type |-> "BACK_TO_HIGHER"], [type |-> "backToHigher"], {},
              "backToHigher")

\* backToMid, the Back button of the lower section
BackToMid ==
    /\ UserReady
    /\ LowerSectionRendered
    /\ Update([type |-> "BACK_TO_MID"], [type |-> "backToMid"], {}, "backToMid")

\* What executeTrade and a confirmed handleChangeStyle do to the state:
\* storage is cleared and the machine goes back to style selection.
ClearAndReset ==
    /\ stored' = clearChecklistState(stored)
    /\ storedStyle' = clearTradingStyle(storedStyle)
    /\ LET cleared == getInitialState(clearChecklistState(stored),
                                      clearTradingStyle(storedStyle), now)
       IN  IF impl = "reducer"
               THEN CommitAndFlush(NoStyle, Null,
                        checklistReducer(checklistState,
                                         [type |-> "RESET_TO_STYLE_SELECTION"]),
                        TRUE, Stages, valDirty, timer)
               ELSE CommitAndFlush(cleared.tradingStyle, cleared.timeframeConfig,
                                   ChecklistPart(cleared),
                                   TRUE, Stages, valDirty, timer)
    /\ showPassConfirm' = FALSE
    /\ showResetConfirm' = FALSE

\* handleChangeStyle: the first click asks for confirmation, the second
\* clears everything.
ChangeStyle ==
    /\ UserReady
    /\ ~StyleSelectorRendered
    /\ IF ~showChangeStyleConfirm
          THEN /\ showChangeStyleConfirm' = TRUE
               /\ UNCHANGED << tradingStyle, timeframeConfig, checklistState,
                               higherValidation, midValidation, lowerValidation,
                               timer, stateDirty, tfDirty, valDirty, stored,
                               storedStyle, showPassConfirm, showResetConfirm >>
          ELSE /\ ClearAndReset
               /\ showChangeStyleConfirm' = FALSE
    /\ lastOp' = "handleChangeStyle"
    /\ UNCHANGED << impl, phase, showRestorePrompt, shouldAutoSave, zeroTimer,
                    now, adapterVars >>

\* cancelChangeStyle
CancelChangeStyle ==
    /\ UserReady
    /\ ~StyleSelectorRendered
    /\ showChangeStyleConfirm
    /\ showChangeStyleConfirm' = FALSE
    /\ lastOp' = "cancelChangeStyle"
    /\ UNCHANGED << impl, phase, tradingStyle, timeframeConfig, checklistState,
                    showRestorePrompt, showPassConfirm, showResetConfirm,
                    shouldAutoSave, higherValidation, midValidation,
                    lowerValidation, timer, zeroTimer, stateDirty, tfDirty,
                    valDirty, stored, storedStyle, now, adapterVars >>

\* handleExecuteTrade of the final panel, then executeTrade of the hook
ExecuteTrade ==
    /\ UserReady
    /\ FinalPanelRendered
    /\ canExecute
    /\ ClearAndReset
    /\ shouldAutoSave' = (impl = "reducer" /\ shouldAutoSave)
    /\ lastOp' = "executeTrade"
    /\ UNCHANGED << impl, phase, showRestorePrompt, showChangeStyleConfirm,
                    zeroTimer, now, adapterVars >>

\* handlePassTrade of the final panel: the first click asks for
\* confirmation, the second calls passTrade(decision).
PassTrade ==
    /\ UserReady
    /\ FinalPanelRendered
    /\ ~canExecute
    /\ IF ~showPassConfirm
          THEN /\ showPassConfirm' = TRUE
               /\ Rejected("handlePassTrade")
          ELSE /\ showPassConfirm' = FALSE
               /\ UpdateAndSave([type |-> "SET_FINAL_DECISION",
                                 decision |-> PassDecision],
                                [type |-> "passTrade", decision |-> PassDecision],
                                "passTrade")
    /\ UNCHANGED << impl, phase, showRestorePrompt, showChangeStyleConfirm,
                    showResetConfirm, shouldAutoSave, zeroTimer, storedStyle,
                    now, adapterVars >>

\* The Cancel button next to "Confirm: Pass Trade"
CancelPassTrade ==
    /\ UserReady
    /\ FinalPanelRendered
    /\ ~canExecute
    /\ showPassConfirm
    /\ showPassConfirm' = FALSE
    /\ lastOp' = "cancelPassTrade"
    /\ UNCHANGED << impl, phase, tradingStyle, timeframeConfig, checklistState,
                    showRestorePrompt, showChangeStyleConfirm, showResetConfirm,
                    shouldAutoSave, higherValidation, midValidation,
                    lowerValidation, timer, zeroTimer, stateDirty, tfDirty,
                    valDirty, stored, storedStyle, now, adapterVars >>

\* handleReset of the final panel: the first click asks for confirmation,
\* the second calls resetChecklist() of the hook.
ResetChecklist ==
    /\ UserReady
    /\ FinalPanelRendered
    /\ IF ~showResetConfirm
          THEN /\ showResetConfirm' = TRUE
               /\ Rejected("handleReset")
               /\ UNCHANGED << showPassConfirm, zeroTimer >>
          ELSE /\ stored' = clearChecklistState(stored)
               /\ zeroTimer' = Snapshot(tradingStyle, timeframeConfig,
                                        createInitialChecklistState)
               /\ CommitAndFlush(tradingStyle,
                     IF impl = "reducer"
                         THEN timeframeConfig
                         ELSE createInitialStateForStyle(tradingStyle).timeframeConfig,
                     IF impl = "reducer"
                         THEN checklistReducer(checklistState,
                                               [type |-> "RESET_CHECKLIST"])
                         ELSE ChecklistPart(createInitialStateForStyle(tradingStyle)),
                     TRUE, Stages, valDirty, timer)
               /\ showResetConfirm' = FALSE
               /\ showPassConfirm' = FALSE
               /\ lastOp' = "resetChecklist"
    /\ UNCHANGED << impl, phase, showRestorePrompt, showChangeStyleConfirm,
                    shouldAutoSave, storedStyle, now, adapterVars >>

\* The callback of a setTimeout(..., 0) runs.
ZeroTimerFire ==
    /\ phase = "mounted"
    /\ zeroTimer # NoTimer
    /\ stored' = Write(zeroTimer, stored)
    /\ zeroTimer' = NoTimer
    /\ lastOp' = "zeroTimerFire"
    /\ UNCHANGED << impl, phase, tradingStyle, timeframeConfig, checklistState,
                    showRestorePrompt, showChangeStyleConfirm, showPassConfirm,
                    showResetConfirm, shouldAutoSave, higherValidation,
                    midValidation, lowerValidation, timer, stateDirty, tfDirty,
                    valDirty, storedStyle, now, adapterVars >>

\* The callback handed to useDebouncedCallback, applied to the arguments of
\* the call that armed the timer.
debouncedSave(payload, item) ==
    IF impl = "reducer"
        THEN IF payload.styleId # NoStyle
                 THEN Write(NestedSnapshot(payload.styleId, payload.tfConfig,
                                getSerializableState(payload.clState)), item)
                 ELSE item
        ELSE IF shouldAutoSave /\ payload.stateToSave.tradingStyle # NoStyle
                 THEN Write(payload.stateToSave, item)
                 ELSE item

\* The debounce delay has passed since the timer was armed: nothing re-armed
\* it, so no commit with a changed state is waiting for its effects.
DebounceFire ==
    /\ phase = "mounted"
    /\ timer # NoTimer
    /\ zeroTimer = NoTimer
    /\ ~stateDirty /\ tfDirty = {} /\ ~valDirty
    /\ stored' = debouncedSave(timer, stored)
    /\ timer' = NoTimer
    /\ lastOp' = "debouncedSave"
    /\ UNCHANGED << impl, phase, tradingStyle, timeframeConfig, checklistState,
                    showRestorePrompt, showChangeStyleConfirm, showPassConfirm,
                    showResetConfirm, shouldAutoSave, higherValidation,
                    midValidation, lowerValidation, zeroTimer, stateDirty,
                    tfDirty, valDirty, storedStyle, now, adapterVars >>

Next ==
    \/ Mount
    \/ FlushEffects
    \/ SelectStyle
    \/ ToggleHigher
    \/ ToggleMid
    \/ ToggleLower
    \/ HandleHigherContinue
    \/ HandleMidContinue
    \/ HandleLowerContinue
    \/ BackToHigher
    \/ BackToMid
    \/ ChangeStyle
    \/ CancelChangeStyle
    \/ ExecuteTrade
    \/ PassTrade
    \/ CancelPassTrade
    \/ ResetChecklist
    \/ ZeroTimerFire
    \/ DebounceFire

Spec == Init /\ [][Next]_vars

\* The session with its scheduling: pending effects run, and a timer that
\* is due and not re-armed fires.
SpecLive ==
    Spec /\ WF_vars(FlushEffects) /\ WF_vars(ZeroTimerFire) /\ WF_vars(DebounceFire)

-----------------------------------------------------------------------------
(* Specification SpecStorage: the persistence adapter on its own, called   *)
(* with any snapshot, over any content of the storage item, with the clock *)
(* advancing and localStorage.setItem answering in every way it can.       *)

\* Snapshots saveChecklistState is called with.
FlatSnapshots ==
    {createInitialStateForStyle(st) : st \in StyleIds}
    \cup {FlatState("swing", TimeframeCodes("swing"), ChecklistAt(step)) :
            step \in {"mid", "lower", "final", "decided"}}

StoredItems ==
    LET \* Values found in the "state" property of a stored object.
        StoredStates ==
            LET good == createInitialStateForStyle("swing")
                Without(f) == [g \in DOMAIN good \ {f} |-> good[g]]
            IN  {good, FlatState("day", TimeframeCodes("day"), ChecklistAt("final"))}
                \cup {Without(f) : f \in {"tradingStyle", "currentStep", "higherTF",
                                           "midTF", "lowerTF", "timeframeConfig"}}
                \cup {[good EXCEPT !.tradingStyle = NoStyle],
                      [good EXCEPT !.tradingStyle = ""],
                      [good EXCEPT !.currentStep = ""],
                      [good EXCEPT !.higherTF = Null],
                      [good EXCEPT !.midTF = Null],
                      [good EXCEPT !.lowerTF = Null],
                      NestedSnapshot("swing", TimeframeCodes("swing"), ChecklistAt("mid")),
                      [primitive |-> TRUE], Null}
        \* Timestamps found in a stored object, around the expiry boundary of the
        \* start time, and 0.
        StoredTimestamps ==
            {0} \cup {(StartHours - h) * MsPerHour : h \in {-1, 0, 23, 24, 25}}
    IN
    {NoItem, [kind |-> "empty"], [kind |-> "garbage"], [kind |-> "primitive"]}
    \cup {[kind |-> "json", data |-> [state |-> st, timestamp |-> ts, version |-> "1.0"]] :
            st \in StoredStates, ts \in StoredTimestamps}
    \cup {[kind |-> "json", data |-> [state |-> st, version |-> "1.0"]] :
            st \in {createInitialStateForStyle("swing")}}
    \cup {[kind |-> "json", data |-> [timestamp |-> ts, version |-> "1.0"]] :
            ts \in {StartHours * MsPerHour}}

InitStorage ==
    /\ Unmounted("reducer")
    /\ stored \in StoredItems
    /\ storedStyle = NoItem
    /\ now = StartHours * MsPerHour
    /\ lastOp = "init"
    /\ ret = NoValue
    /\ arg = NoValue
    /\ savedAt = -1
    /\ prevItem = NoItem

Save ==
    LET SaveArgs ==
            FlatSnapshots
            \cup {NestedSnapshot(st, TimeframeCodes(st), ChecklistAt("mid")) : st \in {"swing"}}
            \cup {NoStyleState,
                  [createInitialStateForStyle("day") EXCEPT !.timeframeConfig = Undefined],
                  [createInitialStateForStyle("day") EXCEPT !.lowerTF = Undefined]}
        \* Outcomes of localStorage.setItem.
        WriteEnvs == {"ok", "quotaThenOk", "quotaTwice", "otherError"}
    IN
    \E state \in SaveArgs, env \in WriteEnvs :
        LET res == saveChecklistState(state, stored, now, env)
        IN  /\ stored' = res.item
            /\ ret' = [ok |-> res.ok, env |-> env]
            /\ arg' = state
            /\ savedAt' = IF res.ok THEN now ELSE -1
            /\ prevItem' = NoItem
            /\ lastOp' = "save"
            /\ UNCHANGED << sessionVars, storedStyle, now >>

Load ==
    LET res == loadChecklistState(stored, now)
    IN  /\ stored' = res.item
        /\ ret' = [value |-> res.value]
        /\ prevItem' = stored
        /\ lastOp' = "load"
        /\ UNCHANGED << sessionVars, storedStyle, now, arg, savedAt >>

Clear ==
    /\ stored' = clearChecklistState(stored)
    /\ ret' = NoValue
    /\ arg' = NoValue
    /\ savedAt' = -1
    /\ prevItem' = NoItem
    /\ lastOp' = "clear"
    /\ UNCHANGED << sessionVars, storedStyle, now >>

\* The clock is observed LongStep hours after the start and every hour from
\* then on, MaxHours hours long.
Tick ==
    /\ now < (StartHours + MaxHours) * MsPerHour
    /\ now' = IF now = StartHours * MsPerHour
                  THEN now + LongStep * MsPerHour
                  ELSE now + MsPerHour
    /\ ret' = NoValue
    /\ prevItem' = NoItem
    /\ lastOp' = "tick"
    /\ UNCHANGED << sessionVars, stored, storedStyle, arg, savedAt >>

\* hasSavedState(): loadChecklistState() is called and its result compared
\* with null.
HasSavedState ==
    /\ stored' = loadChecklistState(stored, now).item
    /\ ret' = [value |-> hasSavedState(stored, now)]
    /\ prevItem' = stored
    /\ lastOp' = "hasSavedState"
    /\ UNCHANGED << sessionVars, storedStyle, now, arg, savedAt >>

\* getLastSaveTime(): the item is read and parsed, nothing is written.
GetLastSaveTime ==
    /\ ret' = [value |-> getLastSaveTime(stored)]
    /\ prevItem' = stored
    /\ lastOp' = "getLastSaveTime"
    /\ UNCHANGED << sessionVars, stored, storedStyle, now, arg, savedAt >>

NextStorage == Save \/ Load \/ Clear \/ Tick \/ HasSavedState \/ GetLastSaveTime

SpecStorage == InitStorage /\ [][NextStorage]_vars

-----------------------------------------------------------------------------
(* Specification SpecValidation: the pure functions of                      *)
(* checklistValidation.js, each called once on an input drawn from a        *)
(* bounded set; a validator's input can then be changed one check at a     *)
(* time and validated again.                                                *)

MaxStringLen == 3

\* A check record with exactly the checks of the set ticked.
WithChecks(empty, ids, ticked) ==
    [k \in DOMAIN empty |-> IF k \in Range(ids) THEN k \in ticked ELSE empty[k]]

\* Nothing ticked, everything ticked, everything but one.
AllOrOneOpen(ids) ==
    {{}, Range(ids)} \cup {Range(ids) \ {c} : c \in Range(ids)}

\* Values handed to parseFloat: numbers around the thresholds, NaN, the
\* infinities, short strings, the strings "Infinity", "-Infinity", "abc",
\* "1.999" and "2.001", null and undefined.
InputValues ==
    LET StringChars == {"0", "2", "5", ".", "-", " ", "x"}
        RECURSIVE StringsUpTo(_)
        StringsUpTo(n) ==
            IF n = 0 THEN {<< >>}
            ELSE LET shorter == StringsUpTo(n - 1)
                 IN  shorter \cup {<< c >> \o t : c \in StringChars,
                                                  t \in {u \in shorter : Len(u) = n - 1}}
    IN
    {Num(n) : n \in {-2000, -1, 0, 1, 499, 500, 501, 1999, 2000, 2001}}
    \cup {NaN, Infinity(1), Infinity(-1), Null, Undefined}
    \cup {[str |-> t] : t \in StringsUpTo(MaxStringLen)}
    \cup {[str |-> InfinityWord], [str |-> << "-" >> \o InfinityWord],
          [str |-> << "a", "b", "c" >>],
          [str |-> << "1", ".", "9", "9", "9" >>],
          [str |-> << "2", ".", "0", "0", "1" >>]}

\* checklistReducer(state, action): the states of a checklist at each step,
\* one of them with its text fields filled; the field setters with fields
\* the records have and one they do not have, other known actions, and
\* action types the reducer does not know.
ReducerCalls ==
    LET filled == [ChecklistAt("lower") EXCEPT
                      !.midTF.patternType = "pullback",
                      !.midTF.gapPercentage = "1.5",
                      !.midTF.prices = [entry |-> "50", stop |-> "48", target |-> "56"],
                      !.lowerTF.positionData.accountSize = "10000"]
        states == {ChecklistAt(step) :
                      step \in {"higher", "mid", "lower", "final", "decided"}}
                  \cup {filled}
        setters ==
            {[type |-> "UPDATE_MID_PRICE", field |-> f, value |-> v] :
                f \in {"entry", "stop", "target", "limit"}, v \in {"", "55", "abc"}}
            \cup {[type |-> "SET_PATTERN_TYPE", patternType |-> p] :
                     p \in {"breakout", "pullback"}}
            \cup {[type |-> "SET_GAP_PERCENTAGE", value |-> v] : v \in {"", "2.5"}}
            \cup {[type |-> "UPDATE_POSITION_DATA", field |-> f, value |-> v] :
                     f \in {"accountSize", "riskPercent", "entry", "stop", "shares"},
                     v \in {"", "1"}}
        others ==
            {[type |-> "TOGGLE_HIGHER_CHECK", checkId |-> "uptrendConfirmed"],
             [type |-> "PROCEED_TO_MID"], [type |-> "RESET_CHECKLIST"],
             [type |-> "RESET_TO_STYLE_SELECTION"],
             [type |-> "SET_FINAL_DECISION", decision |-> PassDecision]}
        unknown ==
            {[type |-> t] : t \in {"", "UNKNOWN", "toggle_higher_check",
                                    "RESET", "constructor"}}
    IN  {[fn |-> "checklistReducer", state |-> st, action |-> a] :
            st \in states, a \in setters \cup others \cup unknown}

\* The calculators' arguments: prices around a long and a short setup, to
\* the cent and finer, zero and negative, values that are not numbers, and
\* prices at and over the ceiling; account sizes and risk percents that give
\* a whole number of shares, a fraction of a share, and more shares than
\* the account pays for.
CalculatorCalls ==
    LET numbers(ns) == {Num(n) : n \in ns}
        notNumbers == {NaN, Infinity(1), Null, [str |-> << "a" >>]}
        prices == numbers({-1000, 0, 48000, 49000, 50000, 51000, 51996,
                           52000, 56000})
                  \cup {[str |-> << "5", "0" >>]} \cup notNumbers
        ceiling == numbers({999998000, 999999000, 1000000000, 1000000001})
        accounts == numbers({0, 100000, 1000000, 10000000})
                    \cup {NaN, [str |-> << "1", "0", "0", "0" >>]}
        percents == numbers({0, 500, 1000, 2000, 100000, 100001})
        entries == numbers({0, 50000}) \cup {Infinity(1)}
        stops == numbers({0, 47000, 48000, 49500, 50000, 52000}) \cup {Null}
    IN  {[fn |-> "calculateRiskReward", entryPrice |-> e, stopLoss |-> st,
          targetPrice |-> t] : e \in prices, st \in prices, t \in prices}
        \cup {[fn |-> "calculateRiskReward", entryPrice |-> e, stopLoss |-> st,
               targetPrice |-> t] : e \in ceiling, st \in ceiling, t \in ceiling}
        \cup {[fn |-> "calculatePositionSize", accountSize |-> a,
               riskPercent |-> p, entryPrice |-> e, stopLoss |-> st] :
                a \in accounts, p \in percents, e \in entries, st \in stops}

ValidationCalls ==
    LET HigherCheckRecords ==
            {WithChecks(createEmptyTimeframeState, HigherChecks, t) :
                t \in SUBSET Range(HigherChecks)}
        MidCheckRecords ==
            {WithChecks(createEmptyMidTimeframeState, MidChecks, t) :
                t \in SUBSET Range(MidChecks)}
        LowerCheckRecords ==
            {WithChecks(createEmptyLowerTimeframeState, LowerChecks, t) :
                t \in SUBSET Range(LowerChecks)}
        \* Style ids a caller can pass: the three styles, a name that is no style,
        \* and names Object.prototype has.
        StyleArgs == StyleIds \cup {"scalp"} \cup ObjectPrototypeKeys
        \* Thresholds (minRatio, maxRisk) in thousandths: 0.5 and the default 2.0.
        Thresholds == {500, 2000}
        \* updateValidationResults(results) of either hook: results of the
        \* validators for nothing ticked, everything ticked and everything but
        \* one ticked, and results that are null.
        higherResults ==
            {Null} \cup {validateHigherTimeframe(
                             WithChecks(createEmptyTimeframeState, HigherChecks, t), "swing") :
                             t \in AllOrOneOpen(HigherChecks)}
        midResults ==
            {Null} \cup {validateMidTimeframe(
                             WithChecks(createEmptyMidTimeframeState, MidChecks, t)) :
                             t \in {{}, Range(MidChecks)}}
        lowerResults ==
            {Null} \cup {validateLowerTimeframe(
                             WithChecks(createEmptyLowerTimeframeState, LowerChecks, t)) :
                             t \in {{}, Range(LowerChecks)}}
        UpdateCalls ==
            {[fn |-> "updateValidationResults", hook |-> h, state |-> st,
              results |-> [higher |-> hr, mid |-> mr, lower |-> lr]] :
                h \in {"reducer", "optimized"},
                st \in {ChecklistAt(step) : step \in {"higher", "mid", "final"}},
                hr \in higherResults, mr \in midResults, lr \in lowerResults}
        \* validateRelationships() of a form with three fields
        RelatedCalls ==
            {[fn |-> "validateRelationships", validators |-> v,
              relationshipValidator |-> r, errors |-> {}, relationshipError |-> e] :
                v \in [{"entry", "stop", "target"} -> {"none", "valid", "invalid"}],
                r \in {"none", "valid", "invalid"}, e \in {"null", "stale"}}
        \* A stage section rendered over a checklist at its step, the form
        \* fields empty, the stage's last check ticked by hand or not.
        empty == [str |-> << >>]
        blank(step) ==
            [ChecklistAt(step) EXCEPT
                !.midTF.prices = [entry |-> empty, stop |-> empty, target |-> empty],
                !.lowerTF.positionData =
                    [accountSize |-> empty, riskPercent |-> empty,
                     entry |-> empty, stop |-> empty]]
        SectionCalls ==
            {[fn |-> "renderSection", hook |-> h, section |-> "mid",
              styleId |-> "swing",
              checklist |-> [blank("mid") EXCEPT !.midTF.rrAtLeast2to1 = t]] :
                h \in {"reducer", "optimized"}, t \in BOOLEAN}
            \cup {[fn |-> "renderSection", hook |-> h, section |-> "lower",
                   styleId |-> st,
                   checklist |-> [blank("lower") EXCEPT
                                     !.lowerTF.positionSizeValid = t]] :
                    h \in {"reducer", "optimized"}, st \in {"day", "swing"},
                    t \in BOOLEAN}
    IN
    ReducerCalls
    \cup CalculatorCalls
    \cup UpdateCalls
    \cup RelatedCalls
    \cup SectionCalls
    \cup {[fn |-> "validateHigherTimeframe", checks |-> c, styleId |-> st] :
        c \in HigherCheckRecords, st \in StyleArgs}
    \cup {[fn |-> "validateMidTimeframe", checks |-> c] : c \in MidCheckRecords}
    \cup {[fn |-> "validateLowerTimeframe", checks |-> c] : c \in LowerCheckRecords}
    \cup {[fn |-> "calculatePositionRecommendation", from |-> "checks",
           higher |-> h,
           mid |-> WithChecks(createEmptyMidTimeframeState, MidChecks, m),
           lower |-> WithChecks(createEmptyLowerTimeframeState, LowerChecks, l),
           styleId |-> "swing"] :
            h \in HigherCheckRecords, m \in AllOrOneOpen(MidChecks),
            l \in AllOrOneOpen(LowerChecks)}
    \cup {[fn |-> "calculatePositionRecommendation", from |-> "results",
           higher |-> [isPassed |-> hp, consolidationDetected |-> hc],
           mid |-> [isPassed |-> mp], lower |-> [isPassed |-> lp]] :
            hp \in BOOLEAN, hc \in BOOLEAN, mp \in BOOLEAN, lp \in BOOLEAN}
    \cup {[fn |-> f, value |-> v, threshold |-> Num(t)] :
            f \in {"shouldAutoCheckRR", "shouldAutoCheckPositionSize"},
            v \in InputValues, t \in Thresholds}

InitValidation ==
    /\ Unmounted("reducer")
    /\ stored = NoItem
    /\ storedStyle = NoItem
    /\ now = StartHours * MsPerHour
    /\ lastOp = "init"
    /\ ret = NoValue
    /\ arg \in ValidationCalls
    /\ savedAt = -1
    /\ prevItem = NoItem

\* The result of the validator the call names.
Validate(call) ==
    CASE call.fn = "validateHigherTimeframe" ->
             validateHigherTimeframe(call.checks, call.styleId)
      [] call.fn = "validateMidTimeframe" -> validateMidTimeframe(call.checks)
      [] call.fn = "validateLowerTimeframe" -> validateLowerTimeframe(call.checks)

Validators ==
    {"validateHigherTimeframe", "validateMidTimeframe", "validateLowerTimeframe"}

\* The checks a validator reads.
ChecksOf(fn) ==
    CASE fn = "validateHigherTimeframe" -> HigherChecks
      [] fn = "validateMidTimeframe" -> MidChecks
      [] fn = "validateLowerTimeframe" -> LowerChecks

Returns(value, op) ==
    /\ ret' = value
    /\ lastOp' = op
    /\ UNCHANGED << sessionVars, stored, storedStyle, now, arg, savedAt, prevItem >>

CallValidateHigher ==
    /\ lastOp = "init" /\ arg.fn = "validateHigherTimeframe"
    /\ Returns(Validate(arg), arg.fn)

CallValidateMid ==
    /\ lastOp = "init" /\ arg.fn = "validateMidTimeframe"
    /\ Returns(Validate(arg), arg.fn)

CallValidateLower ==
    /\ lastOp = "init" /\ arg.fn = "validateLowerTimeframe"
    /\ Returns(Validate(arg), arg.fn)

\* One check of the validated record is switched and the record is
\* validated again.
ToggleCheck ==
    /\ lastOp # "init" /\ arg.fn \in Validators
    /\ \E c \in Range(ChecksOf(arg.fn)) :
          arg' = [arg EXCEPT !.checks[c] = ~arg.checks[c]]
    /\ ret' = Validate(arg')
    /\ lastOp' = "toggleCheck"
    /\ UNCHANGED << sessionVars, stored, storedStyle, now, savedAt, prevItem >>

\* The three results calculatePositionRecommendation is called with.
ResultsOf(call) ==
    IF call.from = "checks"
        THEN [higher |-> validateHigherTimeframe(call.higher, call.styleId),
              mid |-> validateMidTimeframe(call.mid),
              lower |-> validateLowerTimeframe(call.lower)]
        ELSE [higher |-> call.higher, mid |-> call.mid, lower |-> call.lower]

CallRecommendation ==
    /\ lastOp = "init" /\ arg.fn = "calculatePositionRecommendation"
    /\ Returns(calculatePositionRecommendation(ResultsOf(arg).higher,
                   ResultsOf(arg).mid, ResultsOf(arg).lower), arg.fn)

CallShouldAutoCheckRR ==
    /\ lastOp = "init" /\ arg.fn = "shouldAutoCheckRR"
    /\ Returns([value |-> shouldAutoCheckRR(arg.value, arg.threshold)], arg.fn)

CallShouldAutoCheckPositionSize ==
    /\ lastOp = "init" /\ arg.fn = "shouldAutoCheckPositionSize"
    /\ Returns([value |-> shouldAutoCheckPositionSize(arg.value, arg.threshold)],
               arg.fn)

CallChecklistReducer ==
    /\ lastOp = "init" /\ arg.fn = "checklistReducer"
    /\ Returns([value |-> checklistReducer(arg.state, arg.action)], arg.fn)

CallCalculateRiskReward ==
    /\ lastOp = "init" /\ arg.fn = "calculateRiskReward"
    /\ Returns(calculateRiskReward(arg.entryPrice, arg.stopLoss, arg.targetPrice),
               arg.fn)

CallCalculatePositionSize ==
    /\ lastOp = "init" /\ arg.fn = "calculatePositionSize"
    /\ Returns(calculatePositionSize(arg.accountSize, arg.riskPercent,
                                     arg.entryPrice, arg.stopLoss), arg.fn)

\* updateValidationResults(results) on the state of the hook
CallUpdateValidationResults ==
    /\ lastOp = "init" /\ arg.fn = "updateValidationResults"
    /\ Returns([value |-> IF arg.hook = "reducer"
                             THEN ReducerUpdateValidationResults(arg.state, arg.results)
                             ELSE OptimizedUpdateValidationResults(arg.state, arg.results)],
               arg.fn)

CallValidateRelationships ==
    /\ lastOp = "init" /\ arg.fn = "validateRelationships"
    /\ Returns(validateRelationships(arg.validators, arg.relationshipValidator,
                                     arg.errors, arg.relationshipError), arg.fn)

\* The effects of the section the call renders, on the state it is given.
SectionEffects(call, state) ==
    IF call.section = "mid"
        THEN rrAutoCheckEffect(call.hook, state)
        ELSE positionSizeAutoCheckEffect(call.hook, call.styleId, state)

\* The section is rendered and its effects run.
RenderSection ==
    /\ lastOp = "init" /\ arg.fn = "renderSection"
    /\ Returns(SectionEffects(arg, arg.checklist), "renderSection")

\* onPriceChange(field, e.target.value): updateMidPrice of the hook, then the
\* effects of the section on the new prices.
EditMidPrice ==
    /\ lastOp # "init" /\ arg.fn = "renderSection" /\ arg.section = "mid"
    /\ \E field \in {"entry", "stop", "target"},
          chars \in {<< >>, << "9", "0" >>, << "1", "0", "0" >>,
                     << "1", "0", "5" >>, << "1", "2", "0" >>} :
          ret' = SectionEffects(arg,
                     IF arg.hook = "reducer"
                         THEN checklistReducer(ret, [type |-> "UPDATE_MID_PRICE",
                                                     field |-> field,
                                                     value |-> [str |-> chars]])
                         ELSE OptimizedUpdate(ret, [type |-> "updateMidPrice",
                                                    field |-> field,
                                                    value |-> [str |-> chars]]))
    /\ lastOp' = "updateMidPrice"
    /\ UNCHANGED << sessionVars, stored, storedStyle, now, arg, savedAt, prevItem >>

\* onPositionDataChange(field, e.target.value): updatePositionData of the
\* hook, then the effects of the section on the new position data.
EditPositionData ==
    /\ lastOp # "init" /\ arg.fn = "renderSection" /\ arg.section = "lower"
    /\ \E edit \in
            {[field |-> "accountSize", chars |-> c] :
                c \in {<< >>, << "1", "0", "0", "0", "0" >>}}
            \cup {[field |-> "riskPercent", chars |-> c] :
                     c \in {<< >>, << "1" >>, << "2" >>, << "3" >>}}
            \cup {[field |-> "entry", chars |-> c] : c \in {<< >>, << "5", "0" >>}}
            \cup {[field |-> "stop", chars |-> c] :
                     c \in {<< >>, << "4", "8" >>, << "5", "2" >>}} :
          ret' = SectionEffects(arg,
                     IF arg.hook = "reducer"
                         THEN checklistReducer(ret, [type |-> "UPDATE_POSITION_DATA",
                                                     field |-> edit.field,
                                                     value |-> [str |-> edit.chars]])
                         ELSE OptimizedUpdate(ret, [type |-> "updatePositionData",
                                                    field |-> edit.field,
                                                    value |-> [str |-> edit.chars]]))
    /\ lastOp' = "updatePositionData"
    /\ UNCHANGED << sessionVars, stored, storedStyle, now, arg, savedAt, prevItem >>

NextValidation ==
    \/ RenderSection
    \/ EditMidPrice
    \/ EditPositionData
    \/ CallChecklistReducer
    \/ CallValidateRelationships
    \/ CallUpdateValidationResults
    \/ CallCalculateRiskReward
    \/ CallCalculatePositionSize
    \/ CallValidateHigher
    \/ CallValidateMid
    \/ CallValidateLower
    \/ ToggleCheck
    \/ CallRecommendation
    \/ CallShouldAutoCheckRR
    \/ CallShouldAutoCheckPositionSize

SpecValidation == InitValidation /\ [][NextValidation]_vars

-----------------------------------------------------------------------------
(* Claims about the checklist session (specification Spec)                  *)

\* The currentStep of the snapshot in storage, "none" when there is none.
SnapshotStep(item) ==
    IF item.kind # "json" THEN "none"
    ELSE IF "checklistState" \in DOMAIN item.data.state
        THEN item.data.state.checklistState.currentStep
    ELSE item.data.state.currentStep

\* C1: right after proceedToMid, proceedToLower or proceedToFinal has been
\* processed, the snapshot in storage holds the step the machine is now in.
C1_TransitionPersisted ==
    lastOp \in {"proceedToMid", "proceedToLower", "proceedToFinal"}
        => SnapshotStep(stored) = CurrentStep

\* C2: once storage has been cleared and no style is selected (the state
\* executeTrade and a confirmed style change leave), the snapshot stays
\* absent for as long as no style is selected: nothing writes it back.
C2_ClearedStaysAbsent ==
    [][(/\ phase = "mounted"
        /\ tradingStyle = NoStyle
        /\ stored = NoItem
        /\ tradingStyle' = NoStyle)
       => stored' = NoItem]_vars

\* C3: the machine enters the step 'final' only with the lower stage's
\* isPassed true at that moment, whether by proceedToFinal or by a restore.
C3_FinalOnlyAfterLowerPassed ==
    [][(CurrentStep # "final" /\ CurrentStep' = "final")
       => checklistState'.lowerTF.isPassed]_vars

\* The lower stage has just been passed into 'final' by the Continue button.
C3_Witness ==
    /\ lastOp = "proceedToFinal"
    /\ CurrentStep = "final"
    /\ checklistState.lowerTF.isPassed
    /\ CountTrue(checklistState.lowerTF, LowerChecks, 1) = 6

AllTicked(checks, ids) == \A c \in Range(ids) : checks[c]

\* C4: a Continue request while the stage it leaves is not passed (its
\* stored isPassed false, or a check of it open) leaves currentStep as it is.
C4_LockedAdvanceRejected ==
    [][/\ (/\ lastOp' \in {"handleHigherContinue", "proceedToMid"}
           /\ \/ ~checklistState.higherTF.isPassed
              \/ ~AllTicked(checklistState.higherTF, HigherChecks))
          => CurrentStep' = CurrentStep
       /\ (/\ lastOp' \in {"handleMidContinue", "proceedToLower"}
           /\ \/ ~checklistState.midTF.isPassed
              \/ ~AllTicked(checklistState.midTF, MidChecks))
          => CurrentStep' = CurrentStep]_vars

\* A Continue request on the mid stage with a check still open was refused.
C4_Witness ==
    /\ lastOp = "handleMidContinue"
    /\ CurrentStep = "mid"
    /\ ~checklistState.midTF.isPassed
    /\ checklistState.higherTF.isPassed

ForwardAndBack ==
    {<< "styleSelection", "higher" >>, << "higher", "mid" >>,
     << "mid", "lower" >>, << "lower", "final" >>,
     << "mid", "higher" >>, << "lower", "mid" >>}

\* C5: while the container is mounted, currentStep stays, moves one step
\* forward, moves back from mid to higher or from lower to mid, or is reset
\* (to 'higher' by a reset or a style selection, to 'styleSelection' by
\* executeTrade or a confirmed style change); a back action makes one of the
\* two backward moves and no other.
C5_StepMoves ==
    [][(phase = "mounted" /\ phase' = "mounted") =>
          /\ \/ CurrentStep' = CurrentStep
             \/ << CurrentStep, CurrentStep' >> \in ForwardAndBack
             \/ /\ lastOp' \in {"resetChecklist", "handleStyleSelect"}
                /\ CurrentStep' = "higher"
             \/ /\ lastOp' \in {"executeTrade", "handleChangeStyle"}
                /\ CurrentStep' = "styleSelection"
          /\ lastOp' \in {"backToHigher", "backToMid"} =>
                << CurrentStep, CurrentStep' >>
                    \in {<< "mid", "higher" >>, << "lower", "mid" >>}]_vars

\* The Back button of the lower section has taken the machine to 'mid'.
C5_Witness ==
    /\ lastOp = "backToMid"
    /\ CurrentStep = "mid"
    /\ checklistState.midTF.isPassed

\* C6: in every state of the mounted machine each stage's stored isPassed
\* equals the conjunction of that stage's check flags.
C6_IsPassedMatchesFlags ==
    phase = "mounted" =>
        /\ checklistState.higherTF.isPassed
              = AllTicked(checklistState.higherTF, HigherChecks)
        /\ checklistState.midTF.isPassed
              = AllTicked(checklistState.midTF, MidChecks)
        /\ checklistState.lowerTF.isPassed
              = AllTicked(checklistState.lowerTF, LowerChecks)

\* C7: after a restore the checklist state the machine holds is defined and
\* has currentStep and the three timeframe records.
C7_RestoredStateWellFormed ==
    lastOp = "restoreState" =>
        /\ checklistState # Undefined
        /\ {"currentStep", "higherTF", "midTF", "lowerTF"}
               \subseteq DOMAIN checklistState

\* What the debounced callback writes for a payload when it writes.
DebouncedWriteOf(payload) ==
    IF impl = "reducer"
        THEN Write(NestedSnapshot(payload.styleId, payload.tfConfig,
                       getSerializableState(payload.clState)), NoItem)
        ELSE Write(payload.stateToSave, NoItem)

\* C11: when the debounce timer has fired, the one write it made carries the
\* state of the last mutation: storage holds the snapshot of the state the
\* machine is in.
C11_DebouncedWriteCarriesLastState ==
    lastOp = "debouncedSave" =>
        stored = DebouncedWriteOf(DebouncePayload(tradingStyle, timeframeConfig,
                                                  checklistState))

\* C12: a retreat (backToHigher, backToMid) writes to storage at once: right
\* after it storage holds the snapshot of the state before or after the
\* retreat.
C12_RetreatWritesAtOnce ==
    [][lastOp' \in {"backToHigher", "backToMid"} =>
          stored' \in {Write(Snapshot(tradingStyle, timeframeConfig,
                                      checklistState), stored),
                       Write(Snapshot(tradingStyle', timeframeConfig',
                                      checklistState'), stored)}]_vars

\* C20: right after handleStyleSelect(styleId) the machine holds the style
\* and its timeframe codes, three empty check records, currentStep 'higher'
\* and no final decision, and the style preference is stored.
C20_SelectStyleResets ==
    lastOp = "handleStyleSelect" =>
        /\ tradingStyle \in StyleIds
        /\ timeframeConfig = TimeframeCodes(tradingStyle)
        /\ checklistState.higherTF = createEmptyTimeframeState
        /\ checklistState.midTF = createEmptyMidTimeframeState
        /\ checklistState.lowerTF = createEmptyLowerTimeframeState
        /\ checklistState.currentStep = "higher"
        /\ checklistState.finalDecision = Null
        /\ storedStyle = saveTradingStyle(tradingStyle, now)

\* A style has been selected with no checklist snapshot in storage; the
\* preference is stored.
C20_Witness ==
    /\ lastOp = "handleStyleSelect"
    /\ tradingStyle = "day"
    /\ checklistState.currentStep = "higher"
    /\ storedStyle = saveTradingStyle("day", now)
    /\ stored = NoItem

\* The three check records of a checklist are the empty ones.
RecordsEmpty(cl) ==
    /\ cl.higherTF = createEmptyTimeframeState
    /\ cl.midTF = createEmptyMidTimeframeState
    /\ cl.lowerTF = createEmptyLowerTimeframeState

\* C21: resetChecklist empties the three check records, sets currentStep to
\* 'higher' and finalDecision to null, and leaves tradingStyle and
\* timeframeConfig as they were.
C21_ResetChecklistKeepsStyle ==
    [][lastOp' = "resetChecklist" =>
          /\ RecordsEmpty(checklistState')
          /\ checklistState'.currentStep = "higher"
          /\ checklistState'.finalDecision = Null
          /\ tradingStyle' = tradingStyle
          /\ timeframeConfig' = timeframeConfig]_vars

\* C22: after a confirmed style change or an executed trade tradingStyle and
\* timeframeConfig are null, currentStep is 'styleSelection' and the three
\* check records are empty.
C22_FullReset ==
    [][(lastOp' = "executeTrade"
        \/ (lastOp' = "handleChangeStyle" /\ showChangeStyleConfirm)) =>
          /\ tradingStyle' = NoStyle
          /\ timeframeConfig' = Null
          /\ checklistState'.currentStep = "styleSelection"
          /\ RecordsEmpty(checklistState')]_vars

\* C25: the style preference is an entry of its own.  A step that removes
\* the checklist snapshot (a reset, or a load that discards it as expired or
\* invalid) leaves the stored preference as it is; only executeTrade and a
\* confirmed handleChangeStyle clear it.  When the component is mounted
\* with no loadable snapshot and a stored preference, the checklist starts
\* for the preferred style.
C25_StylePreferenceSurvives ==
    [][/\ (stored # NoItem /\ stored' = NoItem
           /\ lastOp' \notin {"executeTrade", "handleChangeStyle"})
              => storedStyle' = storedStyle
       /\ (phase = "init" /\ phase' # "init"
           /\ loadChecklistState(stored, now).value = Null
           /\ storedStyle.kind = "json")
              => /\ tradingStyle' = storedStyle.data.style
                 /\ timeframeConfig' = TimeframeCodes(storedStyle.data.style)
                 /\ checklistState' = createInitialChecklistState
                 /\ storedStyle' = storedStyle]_vars

\* The component was mounted over a preference alone (the snapshot absent
\* or discarded) and started the checklist for the preferred style.
C25_Witness ==
    /\ lastOp = "mount"
    /\ stored = NoItem
    /\ storedStyle = StoredStyle("swing")
    /\ tradingStyle = "swing"
    /\ checklistState.currentStep = "higher"

\* The effects that are about to run apply validation results to the state.
ResultsApplying == valDirty /\ SomeResult(ValidationResults)

\* A validation effect runs when the effects run next.
ValidationPending == tfDirty # {} /\ ValidationStyleArg(tradingStyle) # NoStyle

\* C33: the feedback between validation and the state machine terminates:
\* a step that only applies validation results to the state changes neither
\* check flags nor style, so it leaves no validation to run again.
C33_ApplyingResultsEndsTheLoop ==
    [][(lastOp' = "flushEffects" /\ ResultsApplying) => ~ValidationPending']_vars

\* The last step was made by an effect or a timer, not by the user.
NoMutation == lastOp \in {"flushEffects", "zeroTimerFire", "debouncedSave"}

\* Storage holds the snapshot of the state in memory.
Persisted ==
    /\ checklistState # Undefined
    /\ stored = DebouncedWriteOf(DebouncePayload(tradingStyle, timeframeConfig,
                                              checklistState))

\* C34: every mutation made while a style is selected is eventually
\* persisted: when from some point on the component stays mounted with a
\* style selected and no further mutation occurs, storage comes to hold the
\* snapshot of the state in memory.
C34_MutationsPersisted ==
    <>[](phase = "mounted" /\ tradingStyle # NoStyle /\ NoMutation) => <>[]Persisted

\* What a mount that restores the loaded snapshot puts into memory: the
\* reducer hook takes the checklist from the snapshot's checklistState
\* property, the setState hook takes the snapshot as its state.
RestoredFrom(snapshot) ==
    [style |-> snapshot.tradingStyle,
     tfConfig |-> Prop(snapshot, "timeframeConfig"),
     cl |-> IF impl = "reducer" THEN Prop(snapshot, "checklistState")
            ELSE ChecklistPart(snapshot)]

\* The restored state has the style, the timeframe codes, the step and the
\* three check records of the given state.
Reproduces(restored, style, tfConfig, cl) ==
    /\ restored.style = style
    /\ restored.tfConfig = tfConfig
    /\ restored.cl # Undefined
    /\ restored.cl.currentStep = cl.currentStep
    /\ restored.cl.higherTF = cl.higherTF
    /\ restored.cl.midTF = cl.midTF
    /\ restored.cl.lowerTF = cl.lowerTF

\* The state the pending debounced save was called with.
ArmedState ==
    IF impl = "reducer"
        THEN [style |-> timer.styleId, tfConfig |-> timer.tfConfig,
              cl |-> timer.clState]
        ELSE [style |-> timer.stateToSave.tradingStyle,
              tfConfig |-> Prop(timer.stateToSave, "timeframeConfig"),
              cl |-> ChecklistPart(timer.stateToSave)]

\* C35: every snapshot the hooks write to storage is accepted by
\* loadChecklistState at that time, and restoring it reproduces the style,
\* the timeframe codes, the step and the three check records of the state
\* it was taken from: the state before or after the step that wrote, or
\* the state the debounced save was called with.
C35_WrittenSnapshotsRestore ==
    [][(stored' # stored /\ stored'.kind = "json") =>
          LET loaded == loadChecklistState(stored', now').value
          IN  /\ loaded # Null
              /\ \/ Reproduces(RestoredFrom(loaded), tradingStyle,
                                timeframeConfig, checklistState)
                 \/ Reproduces(RestoredFrom(loaded), tradingStyle',
                                timeframeConfig', checklistState')
                 \/ /\ timer # NoTimer
                    /\ Reproduces(RestoredFrom(loaded), ArmedState.style,
                                  ArmedState.tfConfig, ArmedState.cl)]_vars

\* C36: progress is possible: with a style selected and all checks of the
\* current stage ticked, once the effects have settled the stage's
\* validation result is passed and a continue request moves currentStep on:
\* from 'higher' to 'mid', from 'mid' to 'lower', from 'lower' to 'final'.
C36_ProgressPossible ==
    [][/\ (lastOp' \in {"handleHigherContinue", "proceedToMid"}
           /\ AllTicked(checklistState.higherTF, HigherChecks))
          => (OptIsPassed(higherValidation) /\ checklistState'.currentStep = "mid")
       /\ (lastOp' \in {"handleMidContinue", "proceedToLower"}
           /\ AllTicked(checklistState.midTF, MidChecks))
          => (OptIsPassed(midValidation) /\ checklistState'.currentStep = "lower")
       /\ (lastOp' \in {"handleLowerContinue", "proceedToFinal"}
           /\ AllTicked(checklistState.lowerTF, LowerChecks))
          => (OptIsPassed(lowerValidation) /\ checklistState'.currentStep = "final")
      ]_vars

\* The restore prompt is shown in no state of a session, whatever the
\* storage held at startup.
RestorePromptNeverShown == ~showRestorePrompt

\* C39: the restore prompt is reachable: mounting over a valid, unexpired
\* saved snapshot makes showRestorePrompt true, so that the user is asked
\* before the snapshot is applied.
C39_RestorePromptReachable ==
    [][(phase = "init" /\ phase' # "init" /\ hasSavedState(stored, now))
          => showRestorePrompt']_vars

-----------------------------------------------------------------------------
(* Claims about the persistence adapter (specification SpecStorage)         *)

DayMs == 24 * 60 * 60 * 1000

\* C8: a snapshot of a checklist with a selected style that was saved (the
\* save returning true) and is loaded at most 24 hours later comes back
\* structurally equal to what was saved, and the entry is still in storage.
C8_SaveLoadRoundTrip ==
    (/\ lastOp = "load"
     /\ savedAt >= 0
     /\ now - savedAt <= DayMs
     /\ arg \in FlatSnapshots)
    => (/\ ret.value = arg
        /\ stored.kind = "json"
        /\ stored.data.state = arg
        /\ stored.data.timestamp = savedAt)

\* A checklist that reached the final stage is loaded exactly 24 hours
\* after it was saved and comes back as it was.
C8_Witness ==
    /\ lastOp = "load"
    /\ savedAt >= 0
    /\ now - savedAt = DayMs
    /\ arg \in FlatSnapshots
    /\ arg.currentStep = "final"
    /\ ret.value = arg

\* The entry, as the claim words it: parsed JSON object with a state and a
\* timestamp, the state having a trading style, a current step and the
\* three timeframe records.
C9_WellFormed(item) ==
    /\ item.kind = "json"
    /\ {"state", "timestamp"} \subseteq DOMAIN item.data
    /\ item.data.state # Null
    /\ "primitive" \notin DOMAIN item.data.state
    /\ {"tradingStyle", "currentStep", "higherTF", "midTF", "lowerTF"}
           \subseteq DOMAIN item.data.state
    /\ item.data.state.tradingStyle \notin {NoStyle, ""}
    /\ item.data.state.currentStep # ""
    /\ item.data.state.higherTF # Null
    /\ item.data.state.midTF # Null
    /\ item.data.state.lowerTF # Null

\* C9: a load that finds a stored entry returns the stored state and leaves
\* the entry when the entry is well formed and no more than 24 hours old (24
\* hours exactly included); in every other case (unparsable, no state or
\* timestamp, no trading style / current step / timeframe record, older than
\* 24 hours) it returns null and removes the entry.  With no entry it
\* returns null.
C9_LoadRejectsBadEntries ==
    lastOp = "load" =>
        IF prevItem = NoItem
            THEN ret.value = Null /\ stored = NoItem
        ELSE IF C9_WellFormed(prevItem) /\ now - prevItem.data.timestamp <= DayMs
            THEN ret.value = prevItem.data.state /\ stored = prevItem
        ELSE ret.value = Null /\ stored = NoItem

\* C10: when the first write is refused for quota, the save removes the
\* prior entry and writes once more; if that write is accepted the save
\* returns true and the new snapshot is stored, if it is refused too the
\* save returns false.
C10_QuotaRetry ==
    lastOp = "save" =>
        /\ ret.env = "quotaThenOk" =>
               /\ ret.ok
               /\ stored = JSONStringify(DataToStore(arg, now))
        /\ ret.env = "quotaTwice" => ~ret.ok

\* C24: hasSavedState() and getLastSaveTime() do not modify storage, whatever
\* is stored, and getLastSaveTime() returns a time only when load() would
\* return a state.
C24_ProbesReadOnly ==
    [][lastOp' \in {"hasSavedState", "getLastSaveTime"} =>
          /\ stored' = stored
          /\ (lastOp' = "getLastSaveTime" /\ "date" \in DOMAIN ret'.value)
                => loadChecklistState(stored, now).value # Null]_vars

-----------------------------------------------------------------------------
(* Claims about the pure functions (specification SpecValidation)           *)

ValidatorCalled == lastOp \in Validators \cup {"toggleCheck"}

NumberTicked(checks, ids) == Cardinality({c \in Range(ids) : checks[c]})

\* C13: a stage validator returns isPassed true exactly when all checks of
\* its stage are ticked (five for the higher stage, six for the mid and the
\* lower stage), passedCount is the number of ticked checks, and the lower
\* stage's readyToExecute equals its isPassed; so with one check of a fully
\* ticked record switched off isPassed is false.
C13_IsPassedIffAllChecks ==
    ValidatorCalled =>
        /\ ret.isPassed = AllTicked(arg.checks, ChecksOf(arg.fn))
        /\ ret.passedCount = NumberTicked(arg.checks, ChecksOf(arg.fn))
        /\ ret.totalChecks = (IF arg.fn = "validateHigherTimeframe" THEN 5 ELSE 6)
        /\ Len(ChecksOf(arg.fn)) = ret.totalChecks
        /\ arg.fn = "validateLowerTimeframe" => ret.readyToExecute = ret.isPassed

\* One check of a mid-stage record was switched off, five remain ticked, and
\* the record does not pass.
C13_Witness ==
    /\ lastOp = "toggleCheck"
    /\ arg.fn = "validateMidTimeframe"
    /\ NumberTicked(arg.checks, MidChecks) = 5
    /\ ~ret.isPassed
    /\ ret.passedCount = 5

\* C14: validateHigherTimeframe returns consolidationDetected equal to the
\* negation of notConsolidating, whatever the other four checks and the style.
C14_ConsolidationIsNegatedFlag ==
    (ValidatorCalled /\ arg.fn = "validateHigherTimeframe") =>
        ret.consolidationDetected = ~arg.checks.notConsolidating

\* notConsolidating is ticked while other checks are open, for a day trader:
\* no consolidation is reported.
C14_Witness ==
    /\ ValidatorCalled
    /\ arg.fn = "validateHigherTimeframe"
    /\ arg.styleId = "day"
    /\ arg.checks.notConsolidating
    /\ NumberTicked(arg.checks, HigherChecks) = 1
    /\ ~ret.consolidationDetected

\* C15: no result of validateHigherTimeframe has isPassed and
\* consolidationDetected both true; positionAdjustment is 100 when passed and
\* 0 when not, never 50; and the recommendation computed from the results of
\* the three validators is never 'HALF SIZE'.
C15_NeverPassedAndConsolidating ==
    /\ (ValidatorCalled /\ arg.fn = "validateHigherTimeframe") =>
          /\ ~(ret.isPassed /\ ret.consolidationDetected)
          /\ ret.positionAdjustment = (IF ret.isPassed THEN 100 ELSE 0)
    /\ (/\ lastOp = "calculatePositionRecommendation"
        /\ arg.from = "checks") =>
          /\ ret.status # "HALF SIZE"
          /\ ret.recommendation \in {0, 100}

\* All checks but notConsolidating are ticked on all three stages: the
\* recommendation is 'NO TRADE', not half size.
C15_Witness ==
    /\ lastOp = "calculatePositionRecommendation"
    /\ arg.from = "checks"
    /\ ~arg.higher.notConsolidating
    /\ NumberTicked(arg.higher, HigherChecks) = 4
    /\ AllTicked(arg.mid, MidChecks)
    /\ AllTicked(arg.lower, LowerChecks)
    /\ ret.status = "NO TRADE"

\* C16: calculatePositionRecommendation decides in this order: higher not
\* passed -> 0 'NO TRADE' (error), whatever mid and lower are; else mid not
\* passed -> 0 'WAIT'; else lower not passed -> 0 'NO ENTRY'; else higher
\* consolidating -> 50 'HALF SIZE'; else 100 'FULL SIZE' (success).
C16_RecommendationPrecedence ==
    lastOp = "calculatePositionRecommendation" =>
        LET r == ResultsOf(arg)
        IN  /\ ~r.higher.isPassed =>
                  /\ ret.recommendation = 0 /\ ret.status = "NO TRADE"
                  /\ ret.color = "error"
            /\ (r.higher.isPassed /\ ~r.mid.isPassed) =>
                  /\ ret.recommendation = 0 /\ ret.status = "WAIT"
            /\ (r.higher.isPassed /\ r.mid.isPassed /\ ~r.lower.isPassed) =>
                  /\ ret.recommendation = 0 /\ ret.status = "NO ENTRY"
            /\ (/\ r.higher.isPassed /\ r.mid.isPassed /\ r.lower.isPassed
                /\ r.higher.consolidationDetected) =>
                  /\ ret.recommendation = 50 /\ ret.status = "HALF SIZE"
            /\ (/\ r.higher.isPassed /\ r.mid.isPassed /\ r.lower.isPassed
                /\ ~r.higher.consolidationDetected) =>
                  /\ ret.recommendation = 100 /\ ret.status = "FULL SIZE"
                  /\ ret.color = "success"

\* A higher result that is passed and consolidating, mid passed, lower not
\* passed: 'NO ENTRY' comes before 'HALF SIZE'.
C16_Witness ==
    /\ lastOp = "calculatePositionRecommendation"
    /\ arg.from = "results"
    /\ arg.higher.isPassed /\ arg.higher.consolidationDetected
    /\ arg.mid.isPassed /\ ~arg.lower.isPassed
    /\ ret.status = "NO ENTRY"

\* The risk percentages (in tenths) of the style an id stands for, an id
\* that is no style standing for swing.
RiskOfStyle(styleId, consolidating) ==
    LET style == IF styleId \in StyleIds THEN styleId ELSE "swing"
    IN  IF style = "day"
            THEN (IF consolidating THEN 5 ELSE 10)
            ELSE (IF consolidating THEN 10 ELSE 20)

\* C17: validateHigherTimeframe returns as recommendedRisk the reduced risk
\* of the style when consolidation is detected and its baseline risk
\* otherwise (day 0.5 / 1, swing 1 / 2, position 1 / 2), an unknown style id
\* being treated as swing.
C17_RecommendedRisk ==
    (ValidatorCalled /\ arg.fn = "validateHigherTimeframe") =>
        ret.recommendedRisk
            = Num(RiskOfStyle(arg.styleId, ret.consolidationDetected))

\* C18: shouldAutoCheckRR(ratio, min) is true exactly when ratio parses as a
\* finite number that is at least min.
C18_AutoCheckRR ==
    lastOp = "shouldAutoCheckRR" =>
        LET ratio == parseFloat(arg.value)
        IN  ret.value = (IsFinite(ratio) /\ ratio.num >= arg.threshold.num)

\* C19: shouldAutoCheckPositionSize(risk, max) is true exactly when risk
\* parses as a finite number with 0 < risk <= max.
C19_AutoCheckPositionSize ==
    lastOp = "shouldAutoCheckPositionSize" =>
        LET risk == parseFloat(arg.value)
        IN  ret.value = (/\ IsFinite(risk)
                         /\ 0 < risk.num
                         /\ risk.num <= arg.threshold.num)

\* A risk equal to the maximum is accepted.
C19_Witness ==
    /\ lastOp = "shouldAutoCheckPositionSize"
    /\ arg.value = Num(2000)
    /\ arg.threshold = Num(2000)
    /\ ret.value

\* The action types checklistReducer has a case for (CHECKLIST_ACTIONS).
KnownTypes ==
    {"TOGGLE_HIGHER_CHECK", "UPDATE_HIGHER_VALIDATION", "TOGGLE_MID_CHECK",
     "UPDATE_MID_CHECK", "SET_PATTERN_TYPE", "SET_GAP_PERCENTAGE",
     "UPDATE_MID_PRICE", "UPDATE_MID_VALIDATION", "TOGGLE_LOWER_CHECK",
     "UPDATE_LOWER_CHECK", "UPDATE_POSITION_DATA", "UPDATE_LOWER_VALIDATION",
     "PROCEED_TO_MID", "PROCEED_TO_LOWER", "PROCEED_TO_FINAL", "BACK_TO_HIGHER",
     "BACK_TO_MID", "SET_FINAL_DECISION", "RESET_CHECKLIST",
     "RESET_TO_STYLE_SELECTION", "RESTORE_STATE"}

ReducerCalled == lastOp = "checklistReducer"

\* C23: an action whose type is not a known transition returns the state it
\* was dispatched on, unchanged (a value is returned: nothing is thrown).
C23_UnknownActionIsNoOp ==
    (ReducerCalled /\ arg.action.type \notin KnownTypes) =>
        ret = [value |-> arg.state]

\* An unknown action type was dispatched on a checklist in progress.
C23_Witness ==
    /\ ReducerCalled
    /\ arg.action.type = "UNKNOWN"
    /\ arg.state.currentStep = "lower"
    /\ ret.value = arg.state
    /\ ret.value # createInitialChecklistState

\* The object with field f removed.
Without(obj, f) == [g \in DOMAIN obj \ {f} |-> obj[g]]

\* The new object has the value in the field and agrees with the old one on
\* every other field.
OnlyFieldSet(old, new, field, value) ==
    /\ field \in DOMAIN new
    /\ new[field] = value
    /\ Without(new, field) = Without(old, field)

\* C30: a field-level setter changes only the named field.  UPDATE_MID_PRICE
\* sets midTF.prices[field], SET_PATTERN_TYPE midTF.patternType,
\* SET_GAP_PERCENTAGE midTF.gapPercentage and UPDATE_POSITION_DATA
\* lowerTF.positionData[field]; every other price, every check flag, the
\* isPassed of every stage, the other stage records, currentStep and
\* finalDecision are what they were.
C30_SetterChangesOnlyItsField ==
    ReducerCalled =>
        LET old == arg.state
            new == ret.value
            a == arg.action
        IN  CASE a.type = "UPDATE_MID_PRICE" ->
                    /\ OnlyFieldSet(old.midTF.prices, new.midTF.prices, a.field, a.value)
                    /\ Without(new.midTF, "prices") = Without(old.midTF, "prices")
                    /\ Without(new, "midTF") = Without(old, "midTF")
              [] a.type = "SET_PATTERN_TYPE" ->
                    /\ OnlyFieldSet(old.midTF, new.midTF, "patternType", a.patternType)
                    /\ Without(new, "midTF") = Without(old, "midTF")
              [] a.type = "SET_GAP_PERCENTAGE" ->
                    /\ OnlyFieldSet(old.midTF, new.midTF, "gapPercentage", a.value)
                    /\ Without(new, "midTF") = Without(old, "midTF")
              [] a.type = "UPDATE_POSITION_DATA" ->
                    /\ OnlyFieldSet(old.lowerTF.positionData,
                                    new.lowerTF.positionData, a.field, a.value)
                    /\ Without(new.lowerTF, "positionData")
                          = Without(old.lowerTF, "positionData")
                    /\ Without(new, "lowerTF") = Without(old, "lowerTF")
              [] OTHER -> TRUE

\* The entry price was set on a checklist whose stop and target were filled.
C30_Witness ==
    /\ ReducerCalled
    /\ arg.action = [type |-> "UPDATE_MID_PRICE", field |-> "entry", value |-> "55"]
    /\ arg.state.midTF.prices = [entry |-> "50", stop |-> "48", target |-> "56"]
    /\ ret.value.midTF.prices = [entry |-> "55", stop |-> "48", target |-> "56"]

\* The price or amount an argument is read as is a finite number above 0
\* and not above the maximum.
InRange(x, max) ==
    LET v == parseFloat(x)
    IN  IsFinite(v) /\ v.num > 0 /\ ~Exceeds(v, max)

\* The number of thousandths an argument in range is read as.
Th(x) == parseFloat(x).num

\* A value formatted to two decimals is the nearest number of hundredths of
\* the number of thousandths.
ToTheCent(formatted, thousandths) ==
    /\ 10 * formatted.fixed - 5 <= thousandths
    /\ thousandths < 10 * formatted.fixed + 5

PositionSizeCalled == lastOp = "calculatePositionSize"

\* The arguments of calculatePositionSize other than the stop are valid.
PositionInputsValid ==
    /\ InRange(arg.accountSize, MAX_ACCOUNT)
    /\ InRange(arg.riskPercent, 100)
    /\ InRange(arg.entryPrice, MAX_PRICE)

\* C26: with otherwise valid inputs a stop equal to the entry fails with
\* field 'stopLoss', and an entry below the stop with field 'relationship'.
C26_EqualStopFailsOnStopLoss ==
    (PositionSizeCalled /\ PositionInputsValid /\ InRange(arg.stopLoss, MAX_PRICE)) =>
        /\ Th(arg.stopLoss) = Th(arg.entryPrice) => ret = Failure("stopLoss")
        /\ Th(arg.entryPrice) < Th(arg.stopLoss) => ret = Failure("relationship")

RiskRewardCalled == lastOp = "calculateRiskReward"

\* The call calculateRiskReward({ entryPrice, stopLoss, targetPrice }) with
\* numbers given in thousandths.
RiskRewardOf(entry, stop, target) ==
    [fn |-> "calculateRiskReward", entryPrice |-> Num(entry),
     stopLoss |-> Num(stop), targetPrice |-> Num(target)]

\* On every success isValidTrade is true exactly when the reward per share,
\* |target - entry|, is at least the risk per share, |entry - stop|.
ValidIffRewardCoversRisk ==
    (RiskRewardCalled /\ ret.success) =>
        (ret.data.isValidTrade
            <=> Abs(Th(arg.targetPrice) - Th(arg.entryPrice))
                  >= Abs(Th(arg.entryPrice) - Th(arg.stopLoss)))

\* C27 as stated: entry 50, stop 48, target 49 is a success with
\* isValidTrade false, and on every success isValidTrade is true iff the
\* reward per share is at least the risk per share.
C27_LowRewardIsSuccess_Original ==
    /\ (RiskRewardCalled /\ arg = RiskRewardOf(50000, 48000, 49000)) =>
          (ret.success /\ ~ret.data.isValidTrade)
    /\ ValidIffRewardCoversRisk

\* C27, amended: a low-reward setup is a success with isValidTrade false:
\* entry 50, stop 48, target 51 (ratio 0.5) is one; and on every success
\* isValidTrade is true iff the reward per share is at least the risk per
\* share.
C27_LowRewardIsSuccess ==
    /\ (RiskRewardCalled /\ arg = RiskRewardOf(50000, 48000, 51000)) =>
          (ret.success /\ ~ret.data.isValidTrade /\ ret.data.rrRatio = [fixed |-> 50])
    /\ ValidIffRewardCoversRisk

\* The low-reward long setup 50 / 48 / 51 was calculated.
C27_Witness ==
    /\ RiskRewardCalled
    /\ arg = RiskRewardOf(50000, 48000, 51000)
    /\ ret.success
    /\ ~ret.data.isValidTrade

\* C28: calculateRiskReward succeeds exactly for three prices that are
\* above 0, at most 1,000,000 and either stop < entry < target or
\* target < entry < stop; every other call fails with a field tag.  On
\* success positionType is 'Long' iff stop < entry, and riskPerShare and
\* rewardPerShare are |entry - stop| and |target - entry| to the two
\* decimals the result carries; 50 / 48 / 56 gives 2, 6, ratio 3, Long,
\* valid.
C28_RiskRewardSucceedsForSetups ==
    RiskRewardCalled =>
        LET priced == /\ InRange(arg.entryPrice, MAX_PRICE)
                      /\ InRange(arg.stopLoss, MAX_PRICE)
                      /\ InRange(arg.targetPrice, MAX_PRICE)
            entry == Th(arg.entryPrice)
            stop == Th(arg.stopLoss)
            target == Th(arg.targetPrice)
            setup == priced /\ ((stop < entry /\ entry < target)
                                \/ (target < entry /\ entry < stop))
        IN  /\ ret.success <=> setup
            /\ ~ret.success => "field" \in DOMAIN ret
            /\ ret.success =>
                  /\ (ret.data.positionType = "Long") <=> (stop < entry)
                  /\ ret.data.positionType \in {"Long", "Short"}
                  /\ ToTheCent(ret.data.riskPerShare, Abs(entry - stop))
                  /\ ToTheCent(ret.data.rewardPerShare, Abs(target - entry))
            /\ arg = RiskRewardOf(50000, 48000, 56000) =>
                  ret = [success |-> TRUE,
                         data |-> [riskPerShare |-> [fixed |-> 200],
                                   rewardPerShare |-> [fixed |-> 600],
                                   rrRatio |-> [fixed |-> 300],
                                   positionType |-> "Long",
                                   isValidTrade |-> TRUE]]

\* The long setup 50 / 48 / 56 was calculated.
C28_Witness ==
    /\ RiskRewardCalled
    /\ arg = RiskRewardOf(50000, 48000, 56000)
    /\ ret.success
    /\ ret.data.positionType = "Long"

\* The inputs of calculatePositionSize pass validation: all four are in
\* range and the entry is above the stop.
PositionInputsPass ==
    /\ PositionInputsValid
    /\ InRange(arg.stopLoss, MAX_PRICE)
    /\ Th(arg.entryPrice) > Th(arg.stopLoss)

\* accountSize * riskPercent / 100 in thousandths, for a whole account size
RiskAmountOf(account, percent) == ((account \div 1000) * percent) \div 100

\* The result of calculatePositionSize is the success the claim describes.
PositionSizeAsClaimed ==
    LET account == Th(arg.accountSize)
        entry == Th(arg.entryPrice)
        riskAmount == RiskAmountOf(account, Th(arg.riskPercent))
        riskPerShare == entry - Th(arg.stopLoss)
        shares == riskAmount \div riskPerShare
    IN  /\ ret.success
        /\ ret.data.shares = shares
        /\ ToTheCent(ret.data.riskAmount, riskAmount)
        /\ ToTheCent(ret.data.riskPerShare, riskPerShare)
        /\ ToTheCent(ret.data.positionValue, shares * entry)

\* No share can be bought for the risk amount.
RiskAmountTooSmall ==
    RiskAmountOf(Th(arg.accountSize), Th(arg.riskPercent))
        \div (Th(arg.entryPrice) - Th(arg.stopLoss)) = 0

\* The shares the risk amount buys cost more than the account holds.
PositionExceedsAccount ==
    (RiskAmountOf(Th(arg.accountSize), Th(arg.riskPercent))
        \div (Th(arg.entryPrice) - Th(arg.stopLoss))) * Th(arg.entryPrice)
      > Th(arg.accountSize)

\* The call calculatePositionSize(10000, 2, 50, 48) and its result.
PositionSizeExample ==
    arg = [fn |-> "calculatePositionSize", accountSize |-> Num(10000000),
           riskPercent |-> Num(2000), entryPrice |-> Num(50000),
           stopLoss |-> Num(48000)]
      => ret = [success |-> TRUE,
                data |-> [shares |-> 100,
                          positionValue |-> [fixed |-> 500000],
                          riskAmount |-> [fixed |-> 20000],
                          riskPerShare |-> [fixed |-> 200],
                          percentOfAccount |-> [fixed |-> 5000]]]

UpdateCalled == lastOp = "updateValidationResults"

\* The record of a stage after a result was applied to it: only isPassed and
\* isComplete are written, both with result.isPassed; without a result the
\* record is as it was.
StageApplied(old, new, result) ==
    IF result = Null THEN new = old
    ELSE new = [old EXCEPT !.isPassed = result.isPassed,
                           !.isComplete = result.isPassed]

\* The state after the results were applied, as the claim describes it.
ResultsApplied(old, new, results) ==
    /\ StageApplied(old.higherTF, new.higherTF, results.higher)
    /\ StageApplied(old.midTF, new.midTF, results.mid)
    /\ StageApplied(old.lowerTF, new.lowerTF, results.lower)
    /\ new.consolidationDetected =
          IF results.higher = Null THEN old.consolidationDetected
          ELSE results.higher.consolidationDetected
    /\ new.positionSizeRecommendation =
          IF results.higher = Null THEN old.positionSizeRecommendation
          ELSE results.higher.positionAdjustment
    /\ new.currentStep = old.currentStep
    /\ new.finalDecision = old.finalDecision

\* C31: applying a higher result stores isPassed and isComplete equal to
\* result.isPassed, consolidationDetected equal to
\* result.consolidationDetected and positionSizeRecommendation equal to
\* result.positionAdjustment; applying a mid or lower result writes only
\* that stage's isPassed and isComplete; and the reducer hook and the
\* setState hook store the same values.
C31_ValidationResultStored ==
    UpdateCalled =>
        /\ ResultsApplied(arg.state, ret.value, arg.results)
        /\ ReducerUpdateValidationResults(arg.state, arg.results)
             = OptimizedUpdateValidationResults(arg.state, arg.results)

\* An argument of a calculator is, taken alone, a number that is finite,
\* above 0 and not above its ceiling; max is in whole units.
ValidAlone(x, max) ==
    LET v == parseFloat(x)
    IN  /\ "num" \in DOMAIN v
        /\ v.num > 0
        /\ (v.num \div 1000 < max \/ v.num = 1000 * (v.num \div 1000))
        /\ v.num \div 1000 <= max

\* C32: a relationship error is reported only after every field is valid on
\* its own: when calculatePositionSize or calculateRiskReward fails with
\* field 'relationship', each input alone is a finite positive number
\* within its ceiling (risk percent in (0, 100]); and validateRelationships
\* calls the relationship validator, and sets a relationship error, only
\* when no individual validator reports an error.
C32_RelationshipAfterFields ==
    /\ (lastOp = "calculateRiskReward" /\ ret = Failure("relationship")) =>
          /\ ValidAlone(arg.entryPrice, 1000000)
          /\ ValidAlone(arg.stopLoss, 1000000)
          /\ ValidAlone(arg.targetPrice, 1000000)
    /\ (lastOp = "calculatePositionSize" /\ ret = Failure("relationship")) =>
          /\ ValidAlone(arg.accountSize, 100000000)
          /\ ValidAlone(arg.riskPercent, 100)
          /\ ValidAlone(arg.entryPrice, 1000000)
          /\ ValidAlone(arg.stopLoss, 1000000)
    /\ lastOp = "validateRelationships" =>
          /\ ret.ran =>
                \A field \in DOMAIN arg.validators :
                    arg.validators[field] # "invalid"
          /\ ~ret.ran => ret.relationshipError = arg.relationshipError
          /\ ret.relationshipError = "error" => ret.ran

\* calculatePositionSize was called with four inputs valid alone and an
\* entry below the stop, and failed on the relationship.
C32_Witness ==
    /\ lastOp = "calculatePositionSize"
    /\ ret = Failure("relationship")
    /\ parseFloat(arg.entryPrice).num < parseFloat(arg.stopLoss).num


\* C37: no edit of the mid-stage prices or of the lower-stage position data
\* turns rrAtLeast2to1 or positionSizeValid from true to false: a flag the
\* auto-check ticked stays ticked when the inputs no longer meet the
\* threshold.
C37_AutoCheckOnlyTurnsOn ==
    [][lastOp' \in {"updateMidPrice", "updatePositionData"} =>
          /\ ret.midTF.rrAtLeast2to1 => ret'.midTF.rrAtLeast2to1
          /\ ret.lowerTF.positionSizeValid => ret'.lowerTF.positionSizeValid]_vars

\* The R:R check was open when the section was rendered, is ticked now, and
\* the prices just edited give a ratio under 2.
C37_Witness ==
    /\ lastOp = "updateMidPrice"
    /\ ~arg.checklist.midTF.rrAtLeast2to1
    /\ ret.midTF.rrAtLeast2to1
    /\ LET prices == ret.midTF.prices
           result == calculateRiskReward(prices.entry, prices.stop, prices.target)
       IN  result.success /\ ~shouldAutoCheckRR(result.data.rrRatio, Num(2000))

\* C38: every successful calculatePositionSize result is within the risk
\* budget and the account: at least one share, shares x riskPerShare at most
\* the risk amount, and a position value of at most the account size.
C38_PositionWithinBudget ==
    (PositionSizeCalled /\ ret.success) =>
        LET account == Th(arg.accountSize)
            entry == Th(arg.entryPrice)
            riskPerShare == Abs(entry - Th(arg.stopLoss))
        IN  /\ ret.data.shares >= 1
            /\ ret.data.shares * riskPerShare
                  <= RiskAmountOf(account, Th(arg.riskPercent))
            /\ ret.data.shares <= account \div entry

\* A success whose position takes the whole account: 10000 at 1% risk,
\* entry 50, stop 49.5 buys 200 shares worth 10000.
C38_Witness ==
    /\ PositionSizeCalled
    /\ ret.success
    /\ ret.data.shares = 200
    /\ ret.data.shares * Th(arg.entryPrice) = Th(arg.accountSize)

=============================================================================
